---- MODULE Spec2Model ----
(***************************************************************************)
(* Model of the Python integration layer of reimagined-jupiter:            *)
(*   src/python/src/transaction_builder.py  TransactionBuilder             *)
(*   src/python/src/keypair_manager.py      KeypairManager                 *)
(*   src/python/src/rpc_client.py           SolanaRPCClient                *)
(*   src/python/src/token_operations.py     TokenOperations                *)
(* One TransactionBuilder object, one KeypairManager, one SolanaRPCClient  *)
(* with the library client it holds, and the result of the last call.      *)
(* Optional values are sequences of length 0 (None) or 1 (a value).        *)
(***************************************************************************)
EXTENDS Integers, Sequences, FiniteSets, TLC

VARIABLES
    instructions,   \* self.instructions of the builder
    payer,          \* self.payer: the fee-payer keypair
    client,         \* self.client: the RPC client the builder holds
    ret,            \* outcome of the last call (what the caller observes)
    held,           \* what the caller kept of an earlier call: a transaction, an address
    pending,        \* a build call that has passed its check and has not returned
    added,          \* history: instructions passed in since construction/reset
    built,          \* history: a build has succeeded since construction/reset
    manager,        \* the KeypairManager the caller holds: none, or its self.keypair
    gateway,        \* the SolanaRPCClient: self.rpc_url, self.use_async, self.client
    transport       \* the library client object that gateway.client refers to

vars == <<instructions, payer, client, ret, held, pending, added, built,
          manager, gateway, transport>>

\* what a call on the builder leaves alone besides the builder itself
outside == <<manager, gateway, transport>>

(* ------------------------------ bounds -------------------------------- *)

\* longest instruction list the model lets the builder grow to
MaxInstr == 2

\* longest signers list a caller passes to build_and_sign
MaxSigners == 2

(* ------------------------- values of the model ------------------------ *)

Keypairs == {1, 2, 3}
Payers == {1, 2}
Hashes == {"h1", "h2"}
Clients == {"client"}

\* Keypair.pubkey(): the public key derived from a keypair
pubkey(k) == <<"kp", k>>

\* solders.system_program.ID
SYSTEM_PROGRAM_ID == <<"prog", 0>>

CustomProgram == <<"prog", 1>>
Destination == <<"addr", 1>>

\* Signature.default(): the placeholder of an unsigned slot
DefaultSignature == <<"sig", 0>>

\* Keypair.sign_message over the message: the signature of keypair k
SignatureOf(k) == <<"sig", k>>

AccountMeta(pk, s, w) == [pubkey |-> pk, is_signer |-> s, is_writable |-> w]

Instruction(program_id, accounts, data) ==
    [program_id |-> program_id, accounts |-> accounts, data |-> data]

\* a Python int: its sign, and its magnitude in base 256, most significant
\* byte first and without leading zero bytes
PyInt(negative, magnitude) == [negative |-> negative, magnitude |-> magnitude]

\* the bytes of the lamports field of a system transfer: a u64
U64Bytes == 8

LamportsOverflow == "OverflowError: int cannot be converted to u64"

\* mutant: a conversion that takes the magnitude of a negative int
to_u64_abs(n) ==
    IF Len(n.magnitude) > U64Bytes THEN [ok |-> FALSE, bytes |-> <<>>]
    ELSE [ok |-> TRUE,
          bytes |-> [i \in 1..U64Bytes |->
                        IF i <= Len(n.magnitude)
                        THEN n.magnitude[Len(n.magnitude) + 1 - i] ELSE 0]]

\* the conversion of the lamports item to u64 when transfer reads its
\* parameters: OverflowError for a negative int and for one wider than 64
\* bits, else the eight bytes, least significant first
to_u64(n) ==
    IF n.negative \/ Len(n.magnitude) > U64Bytes THEN [ok |-> FALSE, bytes |-> <<>>]
    ELSE [ok |-> TRUE,
          bytes |-> [i \in 1..U64Bytes |->
                        IF i <= Len(n.magnitude)
                        THEN n.magnitude[Len(n.magnitude) + 1 - i] ELSE 0]]

\* solders.system_program.transfer(TransferParams(...)) for lamports that
\* convert: instruction 2 of the system program, then the lamports
transfer(from_pubkey, to_pubkey, lamports) ==
    Instruction(SYSTEM_PROGRAM_ID,
                <<AccountMeta(from_pubkey, TRUE, TRUE),
                  AccountMeta(to_pubkey, FALSE, TRUE)>>,
                <<2, 0, 0, 0>> \o to_u64(lamports).bytes)

(* inputs callers pass *)
InstructionPool == { Instruction(SYSTEM_PROGRAM_ID, <<>>, <<>>) }
TransferSources == { pubkey(2) }
\* 1000 lamports, the amount of the tests
LamportValues == { PyInt(FALSE, <<3, 232>>) }

\* the lamports a caller may pass: 0, the 1000000 of test_add_transfer,
\* 2^64 - 1, 2^64 and -1
LamportArgs ==
    { PyInt(FALSE, <<>>),
      PyInt(FALSE, <<15, 66, 64>>),
      PyInt(FALSE, [i \in 1..U64Bytes |-> 255]),
      PyInt(FALSE, [i \in 1..(U64Bytes + 1) |-> IF i = 1 THEN 1 ELSE 0]),
      PyInt(TRUE, <<1>>) }
CustomAccounts == { <<AccountMeta(pubkey(3), TRUE, TRUE)>> }
CustomData == { <<1, 2, 3, 4>> }
TokenArgs == {<<>>, <<"h1">>}

\* lists of distinct keypairs of at most n elements
RECURSIVE DistinctSeqs(_, _)
DistinctSeqs(S, n) ==
    IF n = 0 THEN {<<>>}
    ELSE LET shorter == DistinctSeqs(S, n - 1)
         IN  shorter \cup { Append(sx[1], sx[2]) :
                             sx \in { p \in shorter \X S :
                                         \A i \in DOMAIN p[1] : p[1][i] # p[2] } }

\* the signers argument: None, a list of distinct keypairs, or one keypair twice
SignerArgs ==
    {<<>>} \cup { <<l>> : l \in DistinctSeqs(Keypairs, MaxSigners) }
           \cup { <<(<<k, k>>)>> : k \in Keypairs }

(* -------------------- solders Message / Transaction ------------------- *)

RECURSIVE AllMetas(_)
AllMetas(instrs) ==
    IF instrs = <<>> THEN <<>>
    ELSE Head(instrs).accounts \o AllMetas(Tail(instrs))

ProgramMetas(instrs) ==
    [i \in 1..Len(instrs) |-> AccountMeta(instrs[i].program_id, FALSE, FALSE)]

\* every account reference of the message, the fee payer first
KeyMetas(instrs, payer_pk) ==
    <<AccountMeta(payer_pk, TRUE, TRUE)>> \o AllMetas(instrs) \o ProgramMetas(instrs)

\* the distinct keys of metas, in order of first appearance
RECURSIVE UniqueKeys(_, _)
UniqueKeys(metas, seen) ==
    IF metas = <<>> THEN <<>>
    ELSE IF Head(metas).pubkey \in seen THEN UniqueKeys(Tail(metas), seen)
    ELSE <<Head(metas).pubkey>>
            \o UniqueKeys(Tail(metas), seen \cup {Head(metas).pubkey})

KeyIsSigner(metas, pk) ==
    \E i \in DOMAIN metas : metas[i].pubkey = pk /\ metas[i].is_signer

KeyIsWritable(metas, pk) ==
    \E i \in DOMAIN metas : metas[i].pubkey = pk /\ metas[i].is_writable

\* account_keys: signers before non-signers, writable before read-only
AccountKeys(metas) ==
    LET keys == UniqueKeys(metas, {})
        SW(pk) == KeyIsSigner(metas, pk) /\ KeyIsWritable(metas, pk)
        SR(pk) == KeyIsSigner(metas, pk) /\ ~KeyIsWritable(metas, pk)
        UW(pk) == ~KeyIsSigner(metas, pk) /\ KeyIsWritable(metas, pk)
        UR(pk) == ~KeyIsSigner(metas, pk) /\ ~KeyIsWritable(metas, pk)
    IN  SelectSeq(keys, SW) \o SelectSeq(keys, SR)
            \o SelectSeq(keys, UW) \o SelectSeq(keys, UR)

\* zero-based position of a key in account_keys
KeyIndex(keys, pk) == (CHOOSE i \in DOMAIN keys : keys[i] = pk) - 1

CompileInstruction(keys, ix) ==
    [program_id_index |-> KeyIndex(keys, ix.program_id),
     accounts |-> [j \in 1..Len(ix.accounts) |-> KeyIndex(keys, ix.accounts[j].pubkey)],
     data |-> ix.data]

\* Message.new_with_blockhash(instructions, payer, blockhash)
CompileMessage(instrs, metas, keys, blockhash) ==
    [account_keys |-> keys,
     num_required_signatures |->
         Cardinality({ i \in DOMAIN keys : KeyIsSigner(metas, keys[i]) }),
     recent_blockhash |-> blockhash,
     instructions |-> [i \in 1..Len(instrs) |-> CompileInstruction(keys, instrs[i])]]

NewWithBlockhash(instrs, payer_pk, blockhash) ==
    CHOOSE m \in { CompileMessage(instrs, mk[1], mk[2], blockhash) :
                      mk \in { <<metas, AccountKeys(metas)>> :
                                 metas \in {KeyMetas(instrs, payer_pk)} } } : TRUE

\* Transaction.new_unsigned(message)
NewUnsigned(message) ==
    [message |-> message,
     signatures |-> [i \in 1..message.num_required_signatures |-> DefaultSignature]]

\* what a compiled message refers to: program id, account keys and data
MessageInstructions(message) ==
    [i \in 1..Len(message.instructions) |->
        [program_id |-> message.account_keys[message.instructions[i].program_id_index + 1],
         accounts |-> [j \in 1..Len(message.instructions[i].accounts) |->
                          message.account_keys[message.instructions[i].accounts[j] + 1]],
         data |-> message.instructions[i].data]]

\* the fee payer of a message: its first account key
FeePayer(message) == message.account_keys[1]

(* ------------------------- TransactionBuilder -------------------------- *)

EmptyTransaction == "ValueError: Transaction must have at least one instruction"
RpcFailure == "RPCException"
KeypairPubkeyMismatch == "SignerError: keypair-pubkey mismatch"
NotEnoughSigners == "SignerError: not enough signers"
NotImplemented == "NotImplementedError"

\* what the node answers to get_latest_blockhash: a hash, or the call raises
Responses == {<<>>} \cup { <<h>> : h \in Hashes }

\* the node is asked only when the caller gave no blockhash
ResponsesFor(recent_blockhash) == IF recent_blockhash = <<>> THEN Responses ELSE {<<>>}

\* mutant: an instruction already in the list is not appended again
list_append_unique(list, instruction) ==
    IF \E i \in DOMAIN list : list[i] = instruction THEN list
    ELSE Append(list, instruction)

\* self.instructions.append(instruction)
list_append(list, instruction) == Append(list, instruction)

\* mutant: the check written as "self.instructions is None", never true
instructions_is_none(instrs) == FALSE

\* "if not self.instructions": the emptiness check of build
no_instructions(instrs) == Len(instrs) = 0

\* the list without its repeated elements
RECURSIVE Deduplicated(_)
Deduplicated(list) ==
    IF list = <<>> THEN <<>>
    ELSE LET front == Deduplicated(SubSeq(list, 1, Len(list) - 1))
             last == list[Len(list)]
         IN  IF \E i \in DOMAIN front : front[i] = last THEN front
             ELSE Append(front, last)

\* mutant: repeated identical instructions dropped from the message
new_transaction_deduplicated(instrs, payer_kp, blockhash) ==
    NewUnsigned(NewWithBlockhash(Deduplicated(instrs), pubkey(payer_kp), blockhash))

\* lines 117-126: the message over self.instructions, then the unsigned transaction
new_transaction(instrs, payer_kp, blockhash) ==
    NewUnsigned(NewWithBlockhash(instrs, pubkey(payer_kp), blockhash))

\* mutant: the blockhash fetched from the node even when the caller gave one
build_always_fetch(instrs, payer_kp, response, recent_blockhash) ==
    IF no_instructions(instrs)
    THEN [status |-> "error", error |-> EmptyTransaction, tx |-> <<>>, rpc |-> <<>>]
    ELSE IF response = <<>>
    THEN [status |-> "error", error |-> RpcFailure, tx |-> <<>>,
          rpc |-> <<"get_latest_blockhash">>]
    ELSE [status |-> "ok", error |-> "none",
          tx |-> <<new_transaction(instrs, payer_kp, response[1])>>,
          rpc |-> <<"get_latest_blockhash">>]

\* mutant: the blockhash resolved first, the emptiness check after it
build_fetch_first(instrs, payer_kp, response, recent_blockhash) ==
    IF recent_blockhash = <<>> /\ response = <<>>
    THEN [status |-> "error", error |-> RpcFailure, tx |-> <<>>,
          rpc |-> <<"get_latest_blockhash">>]
    ELSE IF no_instructions(instrs)
    THEN [status |-> "error", error |-> EmptyTransaction, tx |-> <<>>,
          rpc |-> IF recent_blockhash = <<>> THEN <<"get_latest_blockhash">> ELSE <<>>]
    ELSE [status |-> "ok", error |-> "none",
          tx |-> <<new_transaction(instrs, payer_kp,
                                   IF recent_blockhash = <<>> THEN response[1]
                                   ELSE recent_blockhash[1])>>,
          rpc |-> IF recent_blockhash = <<>> THEN <<"get_latest_blockhash">> ELSE <<>>]

\* lines 112-126 of build, after the emptiness check: the blockhash, then
\* the message over the list as it is now
build_after_check(instrs, payer_kp, response, recent_blockhash) ==
    IF recent_blockhash = <<>>
    THEN IF response = <<>>
         THEN [status |-> "error", error |-> RpcFailure, tx |-> <<>>,
               rpc |-> <<"get_latest_blockhash">>]
         ELSE [status |-> "ok", error |-> "none",
               tx |-> <<new_transaction(instrs, payer_kp, response[1])>>,
               rpc |-> <<"get_latest_blockhash">>]
    ELSE [status |-> "ok", error |-> "none",
          tx |-> <<new_transaction(instrs, payer_kp, recent_blockhash[1])>>,
          rpc |-> <<>>]

\* build(recent_blockhash): the outcome, the transaction and the RPC requests made
build(instrs, payer_kp, response, recent_blockhash) ==
    IF no_instructions(instrs)
    THEN [status |-> "error", error |-> EmptyTransaction, tx |-> <<>>, rpc |-> <<>>]
    ELSE build_after_check(instrs, payer_kp, response, recent_blockhash)

\* mutant: the payer put into the caller's own list, signers.insert(0, payer)
signers_inserted_in_place(payer_kp, signers) ==
    IF signers = <<>> THEN signers
    ELSE IF ~(\E i \in DOMAIN signers[1] : signers[1][i] = payer_kp)
    THEN <<(<<payer_kp>> \o signers[1])>>
    ELSE signers

\* the caller's signers argument once build_and_sign is over: line 150 binds
\* the local name to a new list made with "+", and sign only reads its list
signers_after_call(payer_kp, signers) == signers

\* mutant: the payer put after the caller's signers instead of before them
determine_signers_payer_last(payer_kp, signers) ==
    IF signers = <<>> THEN <<payer_kp>>
    ELSE IF ~(\E i \in DOMAIN signers[1] : signers[1][i] = payer_kp)
    THEN signers[1] \o <<payer_kp>>
    ELSE signers[1]

\* "Determine signers": the list handed to transaction.sign
determine_signers(payer_kp, signers) ==
    IF signers = <<>> THEN <<payer_kp>>
    ELSE IF ~(\E i \in DOMAIN signers[1] : signers[1][i] = payer_kp)
    THEN <<payer_kp>> \o signers[1]
    ELSE signers[1]

\* transaction.sign(signers): every keypair must be a required signer of the
\* message, and every required signature must be present afterwards
sign(tx, signers) ==
    LET n == tx.message.num_required_signatures
        keys == tx.message.account_keys
        Position(k) == { i \in 1..n : keys[i] = pubkey(k) }
        sigs == [i \in 1..n |->
                    IF \E j \in DOMAIN signers : keys[i] = pubkey(signers[j])
                    THEN SignatureOf(CHOOSE k \in Keypairs : keys[i] = pubkey(k))
                    ELSE tx.signatures[i]]
    IN  IF \E j \in DOMAIN signers : Position(signers[j]) = {}
        THEN [status |-> "error", error |-> KeypairPubkeyMismatch, tx |-> <<>>]
        ELSE IF \E i \in 1..n : sigs[i] = DefaultSignature
        THEN [status |-> "error", error |-> NotEnoughSigners, tx |-> <<>>]
        ELSE [status |-> "ok", error |-> "none",
              tx |-> <<[message |-> tx.message, signatures |-> sigs]>>]

\* the second half of build_and_sign: sign what build returned, if it returned
sign_built(b, s) ==
    IF b.status = "error"
    THEN [status |-> b.status, error |-> b.error, tx |-> <<>>, rpc |-> b.rpc,
          signing |-> <<>>]
    ELSE CHOOSE res \in { [status |-> r.status, error |-> r.error, tx |-> r.tx,
                           rpc |-> b.rpc, signing |-> <<s>>] : r \in {sign(b.tx[1], s)} } : TRUE

\* mutant: the built transaction returned without the signing step
build_and_sign_unsigned(instrs, payer_kp, response, signers, recent_blockhash) ==
    [status |-> build(instrs, payer_kp, response, recent_blockhash).status,
     error |-> build(instrs, payer_kp, response, recent_blockhash).error,
     tx |-> build(instrs, payer_kp, response, recent_blockhash).tx,
     rpc |-> build(instrs, payer_kp, response, recent_blockhash).rpc,
     signing |-> <<>>]

\* build_and_sign(signers, recent_blockhash)
build_and_sign(instrs, payer_kp, response, signers, recent_blockhash) ==
    sign_built(build(instrs, payer_kp, response, recent_blockhash),
               determine_signers(payer_kp, signers))

\* mutant: reset that leaves the list as it is
reset_list_kept(instrs) == instrs

\* reset(): self.instructions = []
reset_list(instrs) == <<>>

\* get_instruction_count(): len(self.instructions)
get_instruction_count(instrs) == Len(instrs)

\* mutant: the placeholder that reports every signature as valid
verify_signature_always_true(pk, message, signature) ==
    [status |-> "ok", error |-> "none", returned |-> "bool", bool |-> TRUE]

\* KeypairManager.verify_signature(pubkey, message, signature)
verify_signature(pk, message, signature) ==
    [status |-> "error", error |-> NotImplemented, returned |-> "none", bool |-> FALSE]

(* ------------------------------ base58 --------------------------------- *)

\* stands for the 32 bytes of an ed25519 seed; a keypair is twice as long
SeedLength == 1

\* the 64 bytes of bytes(keypair): the seed, then the public key
KeypairLength == 2 * SeedLength

ByteValues == {0, 255}

\* the Bitcoin alphabet base58 uses, as one-character texts; a text is a
\* sequence of characters
BITCOIN_ALPHABET ==
    <<"1", "2", "3", "4", "5", "6", "7", "8", "9",
      "A", "B", "C", "D", "E", "F", "G", "H", "J", "K", "L", "M", "N",
      "P", "Q", "R", "S", "T", "U", "V", "W", "X", "Y", "Z",
      "a", "b", "c", "d", "e", "f", "g", "h", "i", "j", "k",
      "m", "n", "o", "p", "q", "r", "s", "t", "u", "v", "w", "x", "y", "z">>

AlphabetChars == { BITCOIN_ALPHABET[i] : i \in DOMAIN BITCOIN_ALPHABET }

\* the value of a character: its zero-based position in the alphabet
CharValue(c) == (CHOOSE i \in DOMAIN BITCOIN_ALPHABET : BITCOIN_ALPHABET[i] = c) - 1

\* remainder of the number with these digits (most significant first) by d
RECURSIVE Remainder(_, _, _)
Remainder(digits, base, d) ==
    IF digits = <<>> THEN 0
    ELSE (Remainder(SubSeq(digits, 1, Len(digits) - 1), base, d) * base
              + digits[Len(digits)]) % d

\* its quotient by d, digit by digit as in long division
Quotient(digits, base, d) ==
    [i \in DOMAIN digits |->
        (Remainder(SubSeq(digits, 1, i - 1), base, d) * base + digits[i]) \div d]

\* the digits of the same number in another base, without leading zeros
RECURSIVE Convert(_, _, _)
Convert(digits, from, to) ==
    IF \A i \in DOMAIN digits : digits[i] = 0 THEN <<>>
    ELSE Append(Convert(Quotient(digits, from, to), from, to),
                Remainder(digits, from, to))

\* how many elements at the front of s are equal to x
RECURSIVE LeadingCount(_, _)
LeadingCount(s, x) ==
    IF s = <<>> \/ Head(s) # x THEN 0 ELSE 1 + LeadingCount(Tail(s), x)

\* the characters of base-58 digits
Chars(digits) == [i \in DOMAIN digits |-> BITCOIN_ALPHABET[digits[i] + 1]]

\* mutant: the encoding of the number alone, leading zero bytes forgotten
b58encode_int(v) == Chars(Convert(v, 256, 58))

\* base58.b58encode(v): one "1" per leading zero byte, then the number in base 58
b58encode(v) ==
    [i \in 1..LeadingCount(v, 0) |-> "1"] \o Chars(Convert(v, 256, 58))

\* base58.b58decode(text): raises on a character outside the alphabet; else one
\* zero byte per leading "1", then the number in base 256
b58decode(text) ==
    IF \E i \in DOMAIN text : text[i] \notin AlphabetChars
    THEN [ok |-> FALSE, bytes |-> <<>>]
    ELSE [ok |-> TRUE,
          bytes |-> [i \in 1..LeadingCount(text, "1") |-> 0]
                       \o Convert([i \in DOMAIN text |-> CharValue(text[i])], 58, 256)]

(* ---------------------------- KeypairManager --------------------------- *)

MissingCredential ==
    "ValueError: Private key must be provided or set in WALLET_PRIVATE_KEY env var"
InvalidKeyFormat == "ValueError: Failed to load keypair"

\* the public key an ed25519 seed determines
PublicOf(seed) == [i \in DOMAIN seed |-> (seed[i] * 3 + 7) % 256]

RECURSIVE ByteSeqs(_)
ByteSeqs(n) ==
    IF n = 0 THEN {<<>>}
    ELSE { Append(bx[1], bx[2]) : bx \in ByteSeqs(n - 1) \X ByteValues }

\* Keypair(): a keypair is its bytes, the seed followed by the public key
GeneratedKeypairs == { seed \o PublicOf(seed) : seed \in ByteSeqs(SeedLength) }

\* byte strings one byte shorter and one byte longer than a keypair
WrongLengthBytes ==
    { [i \in 1..(KeypairLength - 1) |-> 255],
      [i \in 1..(KeypairLength + 1) |-> IF i = 1 THEN 0 ELSE 255] }

\* "invalid_key_string" of the test: characters outside the alphabet
InvalidTexts == { <<"i", "n", "v", "a", "l", "i", "d", "_">>, <<"3", "O">> }

\* the secret texts a caller or the environment supplies, the empty text included
SecretTexts ==
    { b58encode(b) : b \in GeneratedKeypairs \cup WrongLengthBytes }
        \cup InvalidTexts \cup {<<>>}

\* the value of WALLET_PRIVATE_KEY: unset, or a text
EnvValues == {<<>>} \cup { <<t>> : t \in SecretTexts }

\* mutant: a from_bytes that takes a byte string of any length
from_bytes_any_length(raw) == [ok |-> TRUE, keypair |-> <<raw>>]

\* Keypair.from_bytes(raw): raises unless raw has the length of a keypair
from_bytes(raw) ==
    IF Len(raw) = KeypairLength THEN [ok |-> TRUE, keypair |-> <<raw>>]
    ELSE [ok |-> FALSE, keypair |-> <<>>]

\* bytes(keypair)
to_bytes(keypair) == keypair

\* keypair.pubkey(): the public half of the keypair
keypair_pubkey(keypair) == <<"kp", SubSeq(keypair, SeedLength + 1, Len(keypair))>>

\* _load_keypair(private_key): any exception of the two library calls is
\* raised again as the "Failed to load keypair" ValueError
load_keypair(private_key) ==
    CHOOSE l \in { IF d.ok /\ from_bytes(d.bytes).ok
                   THEN [status |-> "ok", error |-> "none",
                         keypair |-> from_bytes(d.bytes).keypair]
                   ELSE [status |-> "error", error |-> InvalidKeyFormat,
                         keypair |-> <<>>] : d \in {b58decode(private_key)} } : TRUE

\* the outcome of a constructor branch that never reads the environment
WithoutEnv(l) ==
    [status |-> l.status, error |-> l.error, keypair |-> l.keypair, getenv |-> <<>>]

\* the outcome of the branch that read WALLET_PRIVATE_KEY
WithEnv(l) ==
    [status |-> l.status, error |-> l.error, keypair |-> l.keypair,
     getenv |-> <<"WALLET_PRIVATE_KEY">>]

\* mutant: the environment value tested with "is None", so that an empty
\* value is handed to _load_keypair
KeypairManager_init_is_none(private_key, keypair, env) ==
    IF keypair # <<>>
    THEN WithoutEnv([status |-> "ok", error |-> "none", keypair |-> keypair])
    ELSE IF private_key # <<>>
    THEN WithoutEnv(load_keypair(private_key[1]))
    ELSE IF env = <<>>
    THEN WithEnv([status |-> "error", error |-> MissingCredential, keypair |-> <<>>])
    ELSE WithEnv(load_keypair(env[1]))

\* KeypairManager.__init__(private_key, keypair) in an environment where
\* WALLET_PRIVATE_KEY has the value env: the outcome, self.keypair and the
\* environment variables read
KeypairManager_init(private_key, keypair, env) ==
    IF keypair # <<>>
    THEN WithoutEnv([status |-> "ok", error |-> "none", keypair |-> keypair])
    ELSE IF private_key # <<>>
    THEN WithoutEnv(load_keypair(private_key[1]))
    ELSE IF env = <<>> \/ env[1] = <<>>
    THEN WithEnv([status |-> "error", error |-> MissingCredential, keypair |-> <<>>])
    ELSE WithEnv(load_keypair(env[1]))

\* get_private_key_base58(): b58encode(bytes(self.keypair))
get_private_key_base58(keypair) == b58encode(to_bytes(keypair))

(* ---------------------------- SolanaRPCClient -------------------------- *)

DefaultRpcUrl == "https://api.mainnet-beta.solana.com"

\* the rpc_url argument and the value of SOLANA_RPC_URL: None/unset, or a URL
UrlArgs == {<<>>, <<"http://localhost:8899">>}
EnvUrls == {<<>>, <<"https://api.devnet.solana.com">>}

\* Client(rpc_url) or AsyncClient(rpc_url): the library client object.  The
\* asynchronous client has a close coroutine; whether the blocking client has a
\* close method depends on the installed library, hence has_close.
NewClient(use_async, endpoint, has_close) ==
    [kind |-> IF use_async THEN "AsyncClient" ELSE "Client",
     endpoint |-> endpoint,
     has_close |-> (use_async \/ has_close),
     closed |-> FALSE]

\* SolanaRPCClient.__init__(rpc_url, use_async): the three fields of the object
SolanaRPCClient_init(rpc_url, use_async, env_url) ==
    [rpc_url |-> IF rpc_url # <<>> THEN rpc_url[1]
                 ELSE IF env_url # <<>> THEN env_url[1]
                 ELSE DefaultRpcUrl,
     use_async |-> use_async,
     client |-> "client"]

(* what the node answers to a call made through the library client: the    *)
(* call raises with the node's error payload, or returns a response        *)
NodeErrors == {"RPCException: node is unhealthy", "RPCException: blockhash not found"}

Raises(payload) == [ok |-> FALSE, payload |-> payload, value |-> <<>>]
Returns(value) == [ok |-> TRUE, payload |-> "none", value |-> <<value>>]

Failures == { Raises(e) : e \in NodeErrors }

\* spl.token.constants.TOKEN_PROGRAM_ID
TOKEN_PROGRAM_ID == <<"prog", 2>>

\* str(x) of a library value: its text form
str(x) == <<"str", x>>

\* an account as the node reports it
NodeAccount(owner, lamports) ==
    [lamports |-> lamports, owner |-> owner, executable |-> FALSE,
     rent_epoch |-> 361, data |-> <<1, 2>>, space |-> 2]

\* response.value of get_account_info: None, or the account
AccountAnswers ==
    { Returns(<<>>) }
        \cup { Returns(<<NodeAccount(o, 2039280)>>) :
                  o \in {TOKEN_PROGRAM_ID, SYSTEM_PROGRAM_ID} }
        \cup Failures

BalanceAnswers == { Returns(0), Returns(5000) } \cup Failures

SendAnswers == { Returns(SignatureOf(1)) } \cup Failures

\* response.value of confirm_transaction: a list whose first element is None
\* for a signature the node does not know, else a status whose status field
\* is None on success and the error on failure
ConfirmAnswers ==
    { Returns(<< <<>> >>),
      Returns(<< <<[status |-> <<>>]>> >>),
      Returns(<< <<[status |-> <<"InstructionError">>]>> >>) } \cup Failures

BlockhashAnswers == { Returns([blockhash |-> h]) : h \in Hashes } \cup Failures

SlotAnswers == { Returns(250000000) } \cup Failures

SimulateAnswers ==
    { Returns([err |-> <<>>, logs |-> <<"log">>, units_consumed |-> 150]),
      Returns([err |-> <<"InstructionError">>, logs |-> <<>>, units_consumed |-> 0]) }
        \cup Failures

AttributeErrorCoroutine == "AttributeError: 'coroutine' object has no attribute 'value'"
AttributeErrorNone == "AttributeError: 'NoneType' object has no attribute 'status'"
TypeErrorAwait == "TypeError: object can't be used in 'await' expression"

\* the outcome of an operation that raised
Raised(error) ==
    [status |-> "error", error |-> error, returned |-> "none", value |-> <<>>,
     bool |-> FALSE]

\* the outcome of an operation that returned
Returned(kind, value, bool) ==
    [status |-> "ok", error |-> "none", returned |-> kind, value |-> value,
     bool |-> bool]

\* "return response.value" of get_balance and get_slot
read_value(value) == Returned("int", value, FALSE)

\* mutant: the account handed on as the node reported it
read_account_info_raw(value) ==
    IF value[1] = <<>> THEN Returned("none", <<>>, FALSE)
    ELSE Returned("dict", value[1], FALSE)

\* lines 78-89: None for an absent account, else the five-field dictionary
read_account_info(value) ==
    IF value[1] = <<>> THEN Returned("none", <<>>, FALSE)
    ELSE Returned("dict",
                  <<[lamports |-> value[1][1].lamports,
                     owner |-> str(value[1][1].owner),
                     executable |-> value[1][1].executable,
                     rent_epoch |-> value[1][1].rent_epoch,
                     data |-> value[1][1].data]>>,
                  FALSE)

\* "return str(response.value)" of send_transaction
read_signature(value) == Returned("str", <<str(value[1])>>, FALSE)

\* "return response.value[0].status is None"
read_confirmation(value) ==
    IF value[1][1] = <<>> THEN Raised(AttributeErrorNone)
    ELSE Returned("bool", <<>>, value[1][1][1].status = <<>>)

\* "return str(response.value.blockhash)"
read_blockhash(value) == Returned("str", <<str(value[1].blockhash)>>, FALSE)

\* lines 237-241: the dictionary error, logs, units_consumed
read_simulation(value) ==
    Returned("dict",
             <<[error |-> value[1].err, logs |-> value[1].logs,
                units_consumed |-> value[1].units_consumed]>>,
             FALSE)

\* a result, with the calls the operation made on the held client
WithCalls(result, calls) ==
    [status |-> result.status, error |-> result.error, returned |-> result.returned,
     value |-> result.value, bool |-> result.bool, rpc |-> calls]

\* mutant: an operation that calls the client a second time when the first
\* call raised, and reports the second failure
gateway_op_retry(t, is_async, method, answer, result) ==
    IF is_async = (t.kind = "AsyncClient")
    THEN IF answer.ok THEN WithCalls(result, <<method>>)
         ELSE WithCalls(Raised(answer.payload), <<method, method>>)
    ELSE IF ~is_async THEN WithCalls(Raised(AttributeErrorCoroutine), <<method>>)
    ELSE IF answer.ok THEN WithCalls(Raised(TypeErrorAwait), <<method>>)
    ELSE WithCalls(Raised(answer.payload), <<method>>)

\* the body shared by every gateway operation: one call of a method of the
\* held client, "await"ed in the *_async variant, then the reading of
\* response.value.  On the blocking client the call is made at once and an
\* await of its response raises; the call on the non-blocking client gives a
\* coroutine, which without await has no value.  result is the reading of the
\* response and is used only when the call returned one.
gateway_op(t, is_async, method, answer, result) ==
    IF is_async = (t.kind = "AsyncClient")
    THEN IF answer.ok THEN WithCalls(result, <<method>>)
         ELSE WithCalls(Raised(answer.payload), <<method>>)
    ELSE IF ~is_async THEN WithCalls(Raised(AttributeErrorCoroutine), <<method>>)
    ELSE IF answer.ok THEN WithCalls(Raised(TypeErrorAwait), <<method>>)
    ELSE WithCalls(Raised(answer.payload), <<method>>)

\* the library's close of a client: closing a closed client changes nothing
client_close(t) == [t EXCEPT !.closed = TRUE]

\* mutant: a close that refuses a gateway it has closed before
gateway_close_once(t, is_async) ==
    IF t.closed
    THEN [result |-> WithCalls(Raised("RuntimeError: client already closed"), <<>>),
          transport |-> t]
    ELSE [result |-> WithCalls(Returned("none", <<>>, FALSE), <<"close">>),
          transport |-> client_close(t)]

\* close() and close_async(): "if hasattr(self.client, 'close')" then the
\* client's close, awaited in close_async.  The blocking client's close runs
\* when called and returns None, which cannot be awaited; the non-blocking
\* client's close is a coroutine, which does nothing unless awaited.
gateway_close(t, is_async) ==
    IF ~t.has_close
    THEN [result |-> WithCalls(Returned("none", <<>>, FALSE), <<>>), transport |-> t]
    ELSE IF is_async = (t.kind = "AsyncClient")
    THEN [result |-> WithCalls(Returned("none", <<>>, FALSE), <<"close">>),
          transport |-> client_close(t)]
    ELSE IF is_async
    THEN [result |-> WithCalls(Raised(TypeErrorAwait), <<"close">>),
          transport |-> client_close(t)]
    ELSE [result |-> WithCalls(Returned("none", <<>>, FALSE), <<"close">>),
          transport |-> t]

(* ---------------------------- TokenOperations -------------------------- *)

MintNotFound == "ValueError: Mint account not found"

TokenBalanceAnswers ==
    { Returns([amount |-> "1500000", decimals |-> 6, ui_amount |-> "1.5",
               ui_amount_string |-> "1.5"]) } \cup Failures

\* response.value of get_token_accounts_by_owner: a list of accounts
TokenAccountsAnswers ==
    { Returns(<<>>), Returns(<<NodeAccount(TOKEN_PROGRAM_ID, 2039280)>>),
      Returns(<<NodeAccount(TOKEN_PROGRAM_ID, 2039280), NodeAccount(TOKEN_PROGRAM_ID, 1)>>),
      Returns(<<NodeAccount(TOKEN_PROGRAM_ID, 1), NodeAccount(TOKEN_PROGRAM_ID, 2039280)>>) }
        \cup Failures

\* the mint argument of get_token_accounts_by_owner: None, or a mint
MintArgs == {<<>>, <<(<<"addr", 2>>)>>}

\* lines 51-57: the dictionary amount, decimals, ui_amount, ui_amount_string
read_token_balance(value) ==
    Returned("dict",
             <<[amount |-> value[1].amount, decimals |-> value[1].decimals,
                ui_amount |-> value[1].ui_amount,
                ui_amount_string |-> value[1].ui_amount_string]>>,
             FALSE)

\* "return response.value" of get_token_accounts_by_owner
read_token_accounts(value) == Returned("list", value, FALSE)

\* lines 171-181: ValueError for an absent mint, else the dictionary
read_mint_info(mint, value) ==
    IF value[1] = <<>> THEN Raised(MintNotFound)
    ELSE Returned("dict",
                  <<[address |-> str(mint), owner |-> str(value[1][1].owner),
                     lamports |-> value[1][1].lamports,
                     data_length |-> Len(value[1][1].data)]>>,
                  FALSE)

\* lines 221-226: False for an absent account, else the owner comparison
read_token_owner(value) ==
    IF value[1] = <<>> THEN Returned("bool", <<>>, FALSE)
    ELSE Returned("bool", <<>>, str(value[1][1].owner) = str(TOKEN_PROGRAM_ID))

\* the body of a TokenOperations query: one call on self.client, not awaited
token_op(t, method, answer, result) == gateway_op(t, FALSE, method, answer, result)

get_token_account_balance(t, answer) ==
    token_op(t, "get_token_account_balance", answer, read_token_balance(answer.value))

\* mutant: the filter by token program id whether or not a mint is given
token_accounts_filter_program(mint) == [programId |-> TOKEN_PROGRAM_ID]

\* lines 72-81: "if mint" chooses the filter; a Pubkey is never falsy
token_accounts_filter(mint) ==
    IF mint # <<>> THEN [mint |-> mint[1]] ELSE [programId |-> TOKEN_PROGRAM_ID]

\* mutant: an empty list returned when the lookup failed
get_token_accounts_by_owner_default(t, owner, mint, answer) ==
    [query |-> <<[owner |-> owner, opts |-> token_accounts_filter(mint)]>>]
        @@ (IF token_op(t, "get_token_accounts_by_owner", answer,
                        read_token_accounts(answer.value)).status = "error"
            THEN WithCalls(Returned("list", <<(<<>>)>>, FALSE),
                           <<"get_token_accounts_by_owner">>)
            ELSE token_op(t, "get_token_accounts_by_owner", answer,
                          read_token_accounts(answer.value)))

\* get_token_accounts_by_owner(owner, mint): the outcome, and the arguments
\* of the call made on the client
get_token_accounts_by_owner(t, owner, mint, answer) ==
    [query |-> <<[owner |-> owner, opts |-> token_accounts_filter(mint)]>>]
        @@ token_op(t, "get_token_accounts_by_owner", answer,
                    read_token_accounts(answer.value))

get_mint_info(t, mint, answer) ==
    token_op(t, "get_account_info", answer, read_mint_info(mint, answer.value))

\* what "except Exception: return False" makes of the body's outcome
except_false(r) ==
    IF r.status = "error" THEN WithCalls(Returned("bool", <<>>, FALSE), r.rpc) ELSE r

\* mutant: verify_token_account without its try/except
verify_token_account_raising(t, answer) ==
    token_op(t, "get_account_info", answer, read_token_owner(answer.value))

\* verify_token_account(account): the lookup and the owner comparison inside
\* try/except
verify_token_account(t, answer) ==
    except_false(token_op(t, "get_account_info", answer, read_token_owner(answer.value)))

(* ------------------- associated token address ------------------------- *)

\* spl.token.constants.ASSOCIATED_TOKEN_PROGRAM_ID
ASSOCIATED_TOKEN_PROGRAM_ID == <<"prog", 3>>

\* the largest bump seed find_program_address tries first
MaxBump == 255

\* a key as a number, for the digest below
KeyCode(pk) ==
    IF pk[1] = "kp" THEN pk[2] ELSE IF pk[1] = "addr" THEN 10 + pk[2] ELSE 20 + pk[2]

\* stands for the SHA-256 digest of the seeds, the bump and the program id
Digest(seeds, bump, program_id) ==
    (KeyCode(seeds[1]) * 31 + KeyCode(seeds[2]) * 17 + KeyCode(seeds[3]) * 7
        + bump * 3 + KeyCode(program_id)) % 251

\* stands for "the digest is a point of the ed25519 curve"
OnCurve(digest) == digest % 2 = 1

\* Pubkey.find_program_address(seeds, program_id): the digest for the largest
\* bump that gives an address off the curve
find_program_address(seeds, program_id) ==
    LET bump == CHOOSE b \in 0..MaxBump :
                    /\ ~OnCurve(Digest(seeds, b, program_id))
                    /\ \A c \in (b + 1)..MaxBump : OnCurve(Digest(seeds, c, program_id))
    IN  <<"pda", Digest(seeds, bump, program_id)>>

\* spl.token.instructions.get_associated_token_address(owner, mint)
get_associated_token_address(owner, mint) ==
    find_program_address(<<owner, TOKEN_PROGRAM_ID, mint>>, ASSOCIATED_TOKEN_PROGRAM_ID)

(* ----------------- amounts: binary floating point ---------------------- *)

\* the significand of a Python float (IEEE 754 binary64), in bits
MantissaBits == 53

\* the largest number of decimals the model passes; 10^MaxDecimals is exact
\* as a float
MaxDecimals == 9

\* the largest number of digits after the point of a ui amount
MaxScale == 4

\* bits kept beyond the significand when a decimal is divided out: enough for
\* the quotient by 10^MaxScale to be longer than the significand
GuardBits == 17

\* natural numbers too large for an Int are digit sequences, most significant
\* first, in base 10, in base 2, or in base 2^ChunkBits for the arithmetic
ChunkBits == 15
ChunkBase == 32768

\* a decimal number as a caller writes it: sign, digits and the number of
\* those digits that follow the point; 10.5 is digits 1 0 5 with scale 1
Decimal(negative, digits, scale) ==
    [negative |-> negative, digits |-> digits, scale |-> scale]

\* s zero digits
Zeros(s) == [i \in 1..s |-> 0]

\* a digit sequence without its leading zeros
Stripped(digits) == SubSeq(digits, LeadingCount(digits, 0) + 1, Len(digits))

RECURSIVE Pow(_, _)
Pow(b, k) == IF k = 0 THEN 1 ELSE b * Pow(b, k - 1)

\* the bits of a number given in base 2^ChunkBits
BitsOfChunks(chunks) ==
    Stripped([i \in 1..(ChunkBits * Len(chunks)) |->
                 (chunks[(i - 1) \div ChunkBits + 1]
                      \div Pow(2, ChunkBits - 1 - ((i - 1) % ChunkBits))) % 2])

\* the base 2^ChunkBits digits of a number given in bits
ChunksOfBits(bits) ==
    LET padded == Zeros((ChunkBits - (Len(bits) % ChunkBits)) % ChunkBits) \o bits
    IN  [j \in 1..(Len(padded) \div ChunkBits) |->
            Remainder(SubSeq(padded, (j - 1) * ChunkBits + 1, j * ChunkBits),
                      2, ChunkBase)]

\* the bits of the natural number with these decimal digits
BitsOf(digits) == BitsOfChunks(Convert(digits, 10, ChunkBase))

\* the decimal digits of the natural number with these bits
DigitsOf(bits) == Convert(ChunksOfBits(bits), ChunkBase, 10)

\* the bits of n + 1
Increment(bits) ==
    IF \A i \in DOMAIN bits : bits[i] = 1 THEN <<1>> \o Zeros(Len(bits))
    ELSE LET j == CHOOSE i \in DOMAIN bits :
                      bits[i] = 0 /\ \A h \in (i + 1)..Len(bits) : bits[h] = 1
         IN  [i \in DOMAIN bits |-> IF i < j THEN bits[i] ELSE IF i = j THEN 1 ELSE 0]

\* a float: the value of the bits m, at most MantissaBits of them, times 2^e
Float(negative, m, e) == [negative |-> negative, m |-> m, e |-> e]

\* round to nearest, ties to even: the float nearest to bits * 2^e, where
\* sticky tells that the exact value lies above bits * 2^e by less than 2^e
round_nearest_even(negative, bits, sticky, e) ==
    IF Len(bits) <= MantissaBits THEN Float(negative, bits, e)
    ELSE LET keep == SubSeq(bits, 1, MantissaBits)
             guard == bits[MantissaBits + 1] = 1
             rest == sticky \/ \E i \in (MantissaBits + 2)..Len(bits) : bits[i] = 1
             up == guard /\ (rest \/ keep[MantissaBits] = 1)
             raised == Increment(keep)
             shift == Len(bits) - MantissaBits
         IN  IF ~up THEN Float(negative, keep, e + shift)
             ELSE IF Len(raised) > MantissaBits
             THEN Float(negative, SubSeq(raised, 1, MantissaBits), e + shift + 1)
             ELSE Float(negative, raised, e + shift)

\* float("..."): the float nearest to the decimal, digits / 10^scale
float_of_decimal(d) ==
    LET numerator == ChunksOfBits(BitsOf(d.digits) \o Zeros(MantissaBits + GuardBits))
        divisor == Pow(10, d.scale)
    IN  IF BitsOf(d.digits) = <<>> THEN Float(d.negative, <<>>, 0)
        ELSE round_nearest_even(d.negative,
                                BitsOfChunks(Quotient(numerator, ChunkBase, divisor)),
                                Remainder(numerator, ChunkBase, divisor) # 0,
                                0 - (MantissaBits + GuardBits))

\* float * int for an int that is exact as a float: the exact product,
\* rounded once
float_times_pow10(f, decimals) ==
    IF f.m = <<>> THEN f
    ELSE round_nearest_even(f.negative, BitsOf(DigitsOf(f.m) \o Zeros(decimals)),
                            FALSE, f.e)

\* int(float): the digits before the point, the fraction dropped, as a
\* Python int written in decimal digits
int_of_float(f) ==
    LET bits == IF f.e >= 0 THEN f.m \o Zeros(f.e)
                ELSE SubSeq(f.m, 1, Len(f.m) + f.e)
    IN  [negative |-> f.negative /\ bits # <<>>, digits |-> DigitsOf(bits)]

\* mutant: the product computed on the decimal itself, without floats
calculate_token_amount_exact(ui_amount, decimals) ==
    LET digits == Stripped(SubSeq(ui_amount.digits \o Zeros(decimals), 1,
                                  Len(ui_amount.digits) - ui_amount.scale + decimals))
    IN  [negative |-> ui_amount.negative /\ digits # <<>>, digits |-> digits]

\* calculate_token_amount(ui_amount, decimals): int(ui_amount * (10 ** decimals))
\* for the float the caller's decimal denotes
calculate_token_amount(ui_amount, decimals) ==
    int_of_float(float_times_pow10(float_of_decimal(ui_amount), decimals))

(* the result record of a call; fields a call does not set keep their defaults *)
Result(op, args) ==
    [op |-> op, args |-> args, status |-> "ok", error |-> "none", returned |-> "none",
     tx |-> <<>>, count |-> 0, bool |-> FALSE, rpc |-> <<>>, signing |-> <<>>,
     value |-> <<>>, getenv |-> <<>>, query |-> <<>>]

BuildOps == {"build", "build_and_sign"}
AddOps == {"add_instruction", "add_transfer", "add_custom_instruction"}

\* the caller keeps the transaction the previous build call returned
Hold == IF ret.op \in BuildOps /\ ret.tx # <<>>
        THEN <<[op |-> ret.op, recent_blockhash |-> ret.args.recent_blockhash,
                pre |-> ret.args.pre, tx |-> ret.tx[1]]>>
        ELSE held

Init ==
    /\ instructions = <<>>
    /\ payer \in Payers
    /\ client \in Clients
    /\ ret = Result("init", <<>>)
    /\ held = <<>>
    /\ pending = <<>>
    /\ added = <<>>
    /\ built = FALSE
    /\ manager = <<>>
    /\ gateway = SolanaRPCClient_init(<<>>, FALSE, <<>>)
    /\ transport = NewClient(FALSE, DefaultRpcUrl, FALSE)

\* mutant: a builder that refuses additions once a build has succeeded
AppendedUnlessBuilt(op, instruction) ==
    /\ Len(instructions) < MaxInstr
    /\ instructions' = IF built THEN instructions
                       ELSE list_append(instructions, instruction)
    /\ added' = IF built THEN added ELSE Append(added, instruction)
    /\ ret' = [Result(op, [instruction |-> instruction])
                  EXCEPT !.returned = IF built THEN "none" ELSE "self",
                         !.status = IF built THEN "error" ELSE "ok",
                         !.error = IF built THEN "RuntimeError" ELSE "none"]
    /\ UNCHANGED <<payer, client, built>>

\* add_instruction(instruction), reached from a method called with args
AppendedWith(op, instruction, args) ==
    /\ Len(instructions) < MaxInstr
    /\ instructions' = list_append(instructions, instruction)
    /\ added' = Append(added, instruction)
    /\ ret' = [Result(op, args) EXCEPT !.returned = "self"]
    /\ UNCHANGED <<payer, client, built>>

\* the shared tail of the three add methods: append, return self
Appended(op, instruction) == AppendedWith(op, instruction, [instruction |-> instruction])

add_instruction(instruction) == Appended("add_instruction", instruction)

\* add_transfer when transfer raised: the exception leaves the method before
\* add_instruction is reached
TransferRaised(from_pubkey, to_pubkey, lamports) ==
    /\ ret' = [Result("add_transfer", [from_pubkey |-> from_pubkey,
                                       to_pubkey |-> to_pubkey,
                                       lamports |-> lamports])
                  EXCEPT !.status = "error", !.error = LamportsOverflow]
    /\ UNCHANGED <<instructions, payer, client, added, built>>

add_transfer(from_pubkey, to_pubkey, lamports) ==
    IF to_u64(lamports).ok
    THEN AppendedWith("add_transfer", transfer(from_pubkey, to_pubkey, lamports),
                      [instruction |-> transfer(from_pubkey, to_pubkey, lamports),
                       from_pubkey |-> from_pubkey, to_pubkey |-> to_pubkey,
                       lamports |-> lamports])
    ELSE TransferRaised(from_pubkey, to_pubkey, lamports)

add_custom_instruction(program_id, accounts, data) ==
    Appended("add_custom_instruction", Instruction(program_id, accounts, data))

\* mutant: a build that empties the builder once the transaction is made
BuildConsuming(recent_blockhash, response) ==
    \E b \in {build(instructions, payer, response, recent_blockhash)} :
        /\ ret' = [Result("build", [recent_blockhash |-> recent_blockhash,
                                    response |-> response, pre |-> instructions])
                      EXCEPT !.status = b.status, !.error = b.error, !.tx = b.tx,
                             !.rpc = b.rpc,
                             !.returned = IF b.tx # <<>> THEN "transaction" ELSE "none"]
        /\ built' = (built \/ b.status = "ok")
        /\ instructions' = IF b.status = "ok" THEN <<>> ELSE instructions
        /\ UNCHANGED <<payer, client, added>>

Build(recent_blockhash, response) ==
    \E b \in {build(instructions, payer, response, recent_blockhash)} :
        /\ ret' = [Result("build", [recent_blockhash |-> recent_blockhash,
                                    response |-> response, pre |-> instructions])
                      EXCEPT !.status = b.status, !.error = b.error, !.tx = b.tx,
                             !.rpc = b.rpc,
                             !.returned = IF b.tx # <<>> THEN "transaction" ELSE "none"]
        /\ built' = (built \/ b.status = "ok")
        /\ UNCHANGED <<instructions, payer, client, added>>

\* mutant: a build_and_sign that drops the instructions when the request fails
BuildAndSignDropping(signers, recent_blockhash, response) ==
    \E b \in {build_and_sign(instructions, payer, response, signers, recent_blockhash)} :
        /\ ret' = [Result("build_and_sign", [signers |-> signers,
                                             signers_after |-> signers_after_call(payer, signers),
                                             recent_blockhash |-> recent_blockhash,
                                             response |-> response,
                                             pre |-> instructions])
                      EXCEPT !.status = b.status, !.error = b.error, !.tx = b.tx,
                             !.rpc = b.rpc, !.signing = b.signing,
                             !.returned = IF b.tx # <<>> THEN "transaction" ELSE "none"]
        /\ built' = (built \/ b.status = "ok")
        /\ instructions' = IF b.error = RpcFailure THEN <<>> ELSE instructions
        /\ UNCHANGED <<payer, client, added>>

BuildAndSign(signers, recent_blockhash, response) ==
    \E b \in {build_and_sign(instructions, payer, response, signers, recent_blockhash)} :
        /\ ret' = [Result("build_and_sign", [signers |-> signers,
                                             signers_after |-> signers_after_call(payer, signers),
                                             recent_blockhash |-> recent_blockhash,
                                             response |-> response,
                                             pre |-> instructions])
                      EXCEPT !.status = b.status, !.error = b.error, !.tx = b.tx,
                             !.rpc = b.rpc, !.signing = b.signing,
                             !.returned = IF b.tx # <<>> THEN "transaction" ELSE "none"]
        /\ built' = (built \/ b.status = "ok")
        /\ UNCHANGED <<instructions, payer, client, added>>

Reset ==
    /\ instructions' = reset_list(instructions)
    /\ added' = <<>>
    /\ built' = FALSE
    /\ ret' = [Result("reset", [pre |-> instructions, built |-> built])
                  EXCEPT !.returned = "self"]
    /\ UNCHANGED <<payer, client>>

\* the static helper works on a builder of its own
CreateTransferTransaction(payer_kp, to_pubkey, lamports, recent_blockhash, response) ==
    IF to_u64(lamports).ok
    THEN \E own \in {list_append(<<>>, transfer(pubkey(payer_kp), to_pubkey, lamports))} :
         \E b \in {build_and_sign(own, payer_kp, response, <<>>, recent_blockhash)} :
            /\ ret' = [Result("create_transfer_transaction",
                              [payer |-> payer_kp, recent_blockhash |-> recent_blockhash,
                               response |-> response, pre |-> own])
                          EXCEPT !.status = b.status, !.error = b.error, !.tx = b.tx,
                                 !.rpc = b.rpc, !.signing = b.signing,
                                 !.returned = IF b.tx # <<>> THEN "transaction" ELSE "none"]
            /\ UNCHANGED <<instructions, payer, client, added, built>>
    ELSE /\ ret' = [Result("create_transfer_transaction",
                           [payer |-> payer_kp, recent_blockhash |-> recent_blockhash,
                            response |-> response, pre |-> <<>>])
                       EXCEPT !.status = "error", !.error = LamportsOverflow]
         /\ UNCHANGED <<instructions, payer, client, added, built>>

GetInstructionCount ==
    /\ ret' = [Result("get_instruction_count", <<>>)
                  EXCEPT !.count = get_instruction_count(instructions),
                         !.returned = "int"]
    /\ UNCHANGED <<instructions, payer, client, added, built>>

VerifySignature(pk, message, signature) ==
    \E v \in {verify_signature(pk, message, signature)} :
        /\ ret' = [Result("verify_signature",
                          [pubkey |-> pk, message |-> message, signature |-> signature])
                      EXCEPT !.status = v.status, !.error = v.error,
                             !.returned = v.returned, !.bool = v.bool]
            /\ UNCHANGED <<instructions, payer, client, added, built>>

Messages == {<<>>, <<1, 2>>}
Signatures == {DefaultSignature, SignatureOf(1)}

\* one call on the builder or on one of the static helpers, by a caller who
\* does not keep the transactions it is given
Next ==
    \/ \E ix \in InstructionPool : add_instruction(ix) /\ UNCHANGED <<held, pending, outside>>
    \/ \E f \in TransferSources, l \in LamportValues :
          add_transfer(f, Destination, l) /\ UNCHANGED <<held, pending, outside>>
    \/ \E a \in CustomAccounts, d \in CustomData :
          add_custom_instruction(CustomProgram, a, d) /\ UNCHANGED <<held, pending, outside>>
    \/ \E t \in TokenArgs : \E r \in ResponsesFor(t) : Build(t, r) /\ UNCHANGED <<held, pending, outside>>
    \/ \E s \in SignerArgs, t \in TokenArgs : \E r \in ResponsesFor(t) :
          BuildAndSign(s, t, r) /\ UNCHANGED <<held, pending, outside>>
    \/ Reset /\ UNCHANGED <<held, pending, outside>>
    \/ \E p \in Payers, l \in LamportValues, t \in TokenArgs : \E r \in ResponsesFor(t) :
          CreateTransferTransaction(p, Destination, l, t, r) /\ UNCHANGED <<held, pending, outside>>
    \/ GetInstructionCount /\ UNCHANGED <<held, pending, outside>>
    \/ \E p \in Payers, m \in Messages, s \in Signatures :
          VerifySignature(pubkey(p), m, s) /\ UNCHANGED <<held, pending, outside>>

Spec == Init /\ [][Next]_vars

\* the same builder driven by a caller who keeps the last transaction it was given
NextRepeat ==
    \/ \E ix \in InstructionPool : add_instruction(ix) /\ held' = Hold /\ UNCHANGED <<pending, outside>>
    \/ \E f \in TransferSources, l \in LamportValues :
          add_transfer(f, Destination, l) /\ held' = Hold /\ UNCHANGED <<pending, outside>>
    \/ \E a \in CustomAccounts, d \in CustomData :
          add_custom_instruction(CustomProgram, a, d) /\ held' = Hold /\ UNCHANGED <<pending, outside>>
    \/ \E t \in TokenArgs : \E r \in ResponsesFor(t) : Build(t, r) /\ held' = Hold /\ UNCHANGED <<pending, outside>>
    \/ Reset /\ held' = Hold /\ UNCHANGED <<pending, outside>>

SpecRepeat == Init /\ [][NextRepeat]_vars

\* the builder driven by a caller who passes any int as lamports
NextTransfer ==
    \/ \E f \in TransferSources, l \in LamportArgs :
          add_transfer(f, Destination, l) /\ UNCHANGED <<held, pending, outside>>
    \/ \E ix \in InstructionPool : add_instruction(ix) /\ UNCHANGED <<held, pending, outside>>
    \/ \E t \in TokenArgs : \E r \in ResponsesFor(t) : Build(t, r) /\ UNCHANGED <<held, pending, outside>>
    \/ Reset /\ UNCHANGED <<held, pending, outside>>
    \/ \E p \in Payers, l \in LamportArgs, t \in {<<"h1">>} :
          CreateTransferTransaction(p, Destination, l, t, <<>>) /\ UNCHANGED <<held, pending, outside>>
    \/ GetInstructionCount /\ UNCHANGED <<held, pending, outside>>

SpecTransfer == Init /\ [][NextTransfer]_vars

(* ------------- the transaction a caller keeps, and the builder ---------- *)

\* mutant: a transaction that reads the builder's list whenever it is looked at
transaction_over_list(tx, payer_kp, instrs) ==
    [tx EXCEPT !.message = NewWithBlockhash(instrs, pubkey(payer_kp),
                                            tx.message.recent_blockhash)]

\* The Transaction object of line 125 once the builder's list has become
\* instrs: Message.new_with_blockhash compiled the elements of the list into
\* the message at line 118 and kept no reference to the list, and no method
\* of the builder keeps a reference to the transaction it returned.
transaction_after(tx, payer_kp, instrs) == tx

\* what the caller holds after a step: the transaction the last build call
\* returned (made) and what that object shows by now (tx)
HoldObject ==
    IF ret.op \in BuildOps /\ ret.tx # <<>>
    THEN <<[op |-> ret.op, recent_blockhash |-> ret.args.recent_blockhash,
            pre |-> ret.args.pre, made |-> ret.tx[1],
            tx |-> transaction_after(ret.tx[1], payer', instructions')]>>
    ELSE IF held = <<>> THEN held
    ELSE <<[held[1] EXCEPT !.tx = transaction_after(@, payer', instructions')]>>

NextSnapshot ==
    \/ \E ix \in InstructionPool :
          add_instruction(ix) /\ held' = HoldObject /\ UNCHANGED <<pending, outside>>
    \/ \E f \in TransferSources, l \in LamportValues :
          add_transfer(f, Destination, l) /\ held' = HoldObject /\ UNCHANGED <<pending, outside>>
    \/ \E a \in CustomAccounts, d \in CustomData :
          /\ add_custom_instruction(CustomProgram, a, d)
          /\ held' = HoldObject /\ UNCHANGED <<pending, outside>>
    \/ \E t \in TokenArgs : \E r \in ResponsesFor(t) :
          Build(t, r) /\ held' = HoldObject /\ UNCHANGED <<pending, outside>>
    \/ \E s \in {<<>>, <<(<<3>>)>>}, t \in TokenArgs : \E r \in ResponsesFor(t) :
          BuildAndSign(s, t, r) /\ held' = HoldObject /\ UNCHANGED <<pending, outside>>
    \/ Reset /\ held' = HoldObject /\ UNCHANGED <<pending, outside>>

SpecSnapshot == Init /\ [][NextSnapshot]_vars

(* ------------------ a caller who builds again after a failure ---------- *)

\* what the caller remembers of the call before the present one
Previous ==
    <<[op |-> ret.op, error |-> ret.error,
       pre |-> IF ret.op \in BuildOps THEN ret.args.pre ELSE <<>>,
       payer |-> payer]>>

NextRecover ==
    \/ \E ix \in InstructionPool :
          add_instruction(ix) /\ held' = Previous /\ UNCHANGED <<pending, outside>>
    \/ \E f \in TransferSources, l \in LamportValues :
          add_transfer(f, Destination, l) /\ held' = Previous /\ UNCHANGED <<pending, outside>>
    \/ \E t \in TokenArgs : \E r \in ResponsesFor(t) :
          Build(t, r) /\ held' = Previous /\ UNCHANGED <<pending, outside>>
    \/ \E s \in {<<>>, <<(<<3>>)>>}, t \in TokenArgs : \E r \in ResponsesFor(t) :
          BuildAndSign(s, t, r) /\ held' = Previous /\ UNCHANGED <<pending, outside>>
    \/ Reset /\ held' = Previous /\ UNCHANGED <<pending, outside>>

SpecRecover == Init /\ [][NextRecover]_vars

(* ------------- one builder, two callers: build step by step ------------- *)

\* build or build_and_sign up to line 110: the emptiness check.  On an empty
\* list the call raises at once; else it goes on, to the request of line 114
\* when no blockhash was given, and other threads run meanwhile.
BuildCheck(op, signers, recent_blockhash) ==
    /\ pending = <<>>
    /\ IF no_instructions(instructions)
       THEN /\ ret' = [Result(op, [signers |-> signers,
                                   recent_blockhash |-> recent_blockhash,
                                   response |-> <<>>, pre |-> instructions])
                          EXCEPT !.status = "error", !.error = EmptyTransaction]
            /\ UNCHANGED pending
       ELSE /\ pending' = <<[op |-> op, signers |-> signers,
                             recent_blockhash |-> recent_blockhash,
                             checked |-> instructions]>>
            /\ UNCHANGED ret
    /\ UNCHANGED <<instructions, payer, client, added, built>>

\* the outcome of the rest of the call over the list the message is made of
rest_of_build(op, instrs, payer_kp, response, signers, recent_blockhash) ==
    IF op = "build"
    THEN [signing |-> <<>>] @@ build_after_check(instrs, payer_kp, response, recent_blockhash)
    ELSE sign_built(build_after_check(instrs, payer_kp, response, recent_blockhash),
                    determine_signers(payer_kp, signers))

\* mutant: the message made of the list as it was when the check was made
BuildConstructOfChecked(response) ==
    /\ pending # <<>>
    /\ \E b \in {rest_of_build(pending[1].op, pending[1].checked, payer, response,
                                pending[1].signers, pending[1].recent_blockhash)} :
          ret' = [Result(pending[1].op, [signers |-> pending[1].signers,
                                         recent_blockhash |-> pending[1].recent_blockhash,
                                         response |-> response,
                                         pre |-> pending[1].checked])
                     EXCEPT !.status = b.status, !.error = b.error, !.tx = b.tx,
                            !.rpc = b.rpc, !.signing = b.signing,
                            !.returned = IF b.tx # <<>> THEN "transaction" ELSE "none"]
    /\ pending' = <<>>
    /\ built' = (built \/ ret'.status = "ok")
    /\ UNCHANGED <<instructions, payer, client, added>>

\* the rest of the call, lines 112-126 and 146-154: the answer to the request
\* if one was made, then the message over self.instructions as it is by now
BuildConstruct(response) ==
    /\ pending # <<>>
    /\ \E b \in {rest_of_build(pending[1].op, instructions, payer, response,
                                pending[1].signers, pending[1].recent_blockhash)} :
          ret' = [Result(pending[1].op, [signers |-> pending[1].signers,
                                         recent_blockhash |-> pending[1].recent_blockhash,
                                         response |-> response,
                                         pre |-> pending[1].checked])
                     EXCEPT !.status = b.status, !.error = b.error, !.tx = b.tx,
                            !.rpc = b.rpc, !.signing = b.signing,
                            !.returned = IF b.tx # <<>> THEN "transaction" ELSE "none"]
    /\ pending' = <<>>
    /\ built' = (built \/ ret'.status = "ok")
    /\ UNCHANGED <<instructions, payer, client, added>>

\* a caller in build or build_and_sign, and another caller of the same
\* builder whose add_instruction and reset run while the first one waits
NextInterleaved ==
    \/ \E t \in TokenArgs : BuildCheck("build", <<>>, t) /\ UNCHANGED <<held, outside>>
    \/ \E s \in {<<>>, <<(<<3>>)>>}, t \in TokenArgs :
          BuildCheck("build_and_sign", s, t) /\ UNCHANGED <<held, outside>>
    \/ \E r \in Responses :
          /\ pending # <<>>
          /\ r \in ResponsesFor(pending[1].recent_blockhash)
          /\ BuildConstruct(r)
          /\ UNCHANGED <<held, outside>>
    \/ \E ix \in InstructionPool : add_instruction(ix) /\ UNCHANGED <<held, pending, outside>>
    \/ \E a \in CustomAccounts, d \in CustomData :
          add_custom_instruction(CustomProgram, a, d) /\ UNCHANGED <<held, pending, outside>>
    \/ Reset /\ UNCHANGED <<held, pending, outside>>

SpecInterleaved == Init /\ [][NextInterleaved]_vars

(* --------------------- calls on the KeypairManager ---------------------- *)

\* what a call on the KeypairManager leaves alone
builder == <<instructions, payer, client, held, pending, added, built>>

\* KeypairManager(private_key, keypair) where WALLET_PRIVATE_KEY has the value
\* env; the caller holds the new manager only when the constructor returned
Construct(private_key, keypair, env) ==
    \E k \in {KeypairManager_init(private_key, keypair, env)} :
        /\ ret' = [Result("KeypairManager", [private_key |-> private_key,
                                             keypair |-> keypair, env |-> env])
                      EXCEPT !.status = k.status, !.error = k.error,
                             !.value = k.keypair, !.getenv = k.getenv,
                             !.returned = IF k.status = "ok" THEN "manager" ELSE "none"]
        /\ manager' = IF k.status = "ok" THEN k.keypair ELSE manager
        /\ UNCHANGED <<builder, gateway, transport>>

\* KeypairManager.generate_keypair(): Keypair()
GenerateKeypair(keypair) ==
    /\ ret' = [Result("generate_keypair", <<>>)
                  EXCEPT !.value = <<keypair>>, !.returned = "keypair"]
    /\ UNCHANGED <<builder, manager, gateway, transport>>

GetPublicKey ==
    /\ manager # <<>>
    /\ ret' = [Result("get_public_key", [keypair |-> manager[1]])
                  EXCEPT !.value = <<keypair_pubkey(manager[1])>>, !.returned = "pubkey"]
    /\ UNCHANGED <<builder, manager, gateway, transport>>

GetPrivateKeyBytes ==
    /\ manager # <<>>
    /\ ret' = [Result("get_private_key_bytes", [keypair |-> manager[1]])
                  EXCEPT !.value = <<to_bytes(manager[1])>>, !.returned = "bytes"]
    /\ UNCHANGED <<builder, manager, gateway, transport>>

GetPrivateKeyBase58 ==
    /\ manager # <<>>
    /\ ret' = [Result("get_private_key_base58", [keypair |-> manager[1]])
                  EXCEPT !.value = <<get_private_key_base58(manager[1])>>,
                         !.returned = "str"]
    /\ UNCHANGED <<builder, manager, gateway, transport>>

\* the private_key argument: None, or a text
PrivateKeyArgs == {<<>>} \cup { <<t>> : t \in SecretTexts }

\* the keypair argument: None, or a keypair made before
KeypairArgs == {<<>>} \cup { <<k>> : k \in GeneratedKeypairs }

NextKeys ==
    \/ \E pk \in PrivateKeyArgs, k \in KeypairArgs, e \in EnvValues : Construct(pk, k, e)
    \/ \E k \in GeneratedKeypairs : GenerateKeypair(k)
    \/ GetPublicKey
    \/ GetPrivateKeyBytes
    \/ GetPrivateKeyBase58

SpecKeys == Init /\ [][NextKeys]_vars

(* ------------- calls on the SolanaRPCClient and TokenOperations --------- *)

\* a gateway as its constructor leaves it, for any arguments and environment
InitGateway ==
    /\ instructions = <<>>
    /\ payer \in Payers
    /\ client \in Clients
    /\ ret = Result("init", <<>>)
    /\ held = <<>>
    /\ pending = <<>>
    /\ added = <<>>
    /\ built = FALSE
    /\ manager = <<>>
    /\ \E u \in UrlArgs, a \in BOOLEAN, e \in EnvUrls, h \in BOOLEAN :
          /\ gateway = SolanaRPCClient_init(u, a, e)
          /\ transport = NewClient(a, SolanaRPCClient_init(u, a, e).rpc_url, h)

\* the caller observes the outcome r of operation op; nothing else changes
Answered(op, args, r) ==
    /\ ret' = [Result(op, args)
                  EXCEPT !.status = r.status, !.error = r.error,
                         !.returned = r.returned, !.value = r.value,
                         !.bool = r.bool, !.rpc = r.rpc]
    /\ UNCHANGED <<builder, manager, gateway, transport>>

\* get_balance(pubkey) and get_balance_async(pubkey)
GetBalance(is_async, pk, answer) ==
    Answered("get_balance", [is_async |-> is_async, pubkey |-> pk, answer |-> answer],
             gateway_op(transport, is_async, "get_balance", answer,
                        read_value(answer.value)))

\* get_account_info(pubkey) and get_account_info_async(pubkey)
GetAccountInfo(is_async, pk, answer) ==
    Answered("get_account_info",
             [is_async |-> is_async, pubkey |-> pk, answer |-> answer],
             gateway_op(transport, is_async, "get_account_info", answer,
                        read_account_info(answer.value)))

\* send_transaction(transaction, skip_preflight) and its async variant
SendTransaction(is_async, transaction, skip_preflight, answer) ==
    Answered("send_transaction",
             [is_async |-> is_async, transaction |-> transaction,
              skip_preflight |-> skip_preflight, answer |-> answer],
             gateway_op(transport, is_async, "send_transaction", answer,
                        read_signature(answer.value)))

\* confirm_transaction(signature, commitment) and its async variant
ConfirmTransaction(is_async, signature, answer) ==
    Answered("confirm_transaction",
             [is_async |-> is_async, signature |-> signature, answer |-> answer],
             gateway_op(transport, is_async, "confirm_transaction", answer,
                        read_confirmation(answer.value)))

\* get_recent_blockhash() and its async variant
GetRecentBlockhash(is_async, answer) ==
    Answered("get_recent_blockhash", [is_async |-> is_async, answer |-> answer],
             gateway_op(transport, is_async, "get_latest_blockhash", answer,
                        read_blockhash(answer.value)))

\* get_slot() and get_slot_async()
GetSlot(is_async, answer) ==
    Answered("get_slot", [is_async |-> is_async, answer |-> answer],
             gateway_op(transport, is_async, "get_slot", answer,
                        read_value(answer.value)))

\* simulate_transaction(transaction) and its async variant
SimulateTransaction(is_async, transaction, answer) ==
    Answered("simulate_transaction",
             [is_async |-> is_async, transaction |-> transaction, answer |-> answer],
             gateway_op(transport, is_async, "simulate_transaction", answer,
                        read_simulation(answer.value)))

\* mutant: a close that also drops the client, "self.client = None"
CloseDroppingClient(is_async) ==
    \E c \in {gateway_close(transport, is_async)} :
        /\ ret' = [Result("close", [is_async |-> is_async, pre |-> transport])
                      EXCEPT !.status = c.result.status, !.error = c.result.error,
                             !.rpc = c.result.rpc]
        /\ transport' = c.transport
        /\ gateway' = [gateway EXCEPT !.client = "none"]
        /\ UNCHANGED <<builder, manager>>

\* close() and close_async()
Close(is_async) ==
    \E c \in {gateway_close(transport, is_async)} :
        /\ ret' = [Result("close", [is_async |-> is_async, pre |-> transport])
                      EXCEPT !.status = c.result.status, !.error = c.result.error,
                             !.rpc = c.result.rpc]
        /\ transport' = c.transport
        /\ UNCHANGED <<builder, manager, gateway>>

\* the TokenOperations queries, made on the client the gateway holds
GetTokenAccountBalance(token_account, answer) ==
    Answered("get_token_account_balance",
             [token_account |-> token_account, answer |-> answer],
             get_token_account_balance(transport, answer))

GetTokenAccountsByOwner(owner, mint, answer) ==
    \E r \in {get_token_accounts_by_owner(transport, owner, mint, answer)} :
        /\ ret' = [Result("get_token_accounts_by_owner",
                          [owner |-> owner, mint |-> mint, answer |-> answer])
                      EXCEPT !.status = r.status, !.error = r.error,
                             !.returned = r.returned, !.value = r.value,
                             !.bool = r.bool, !.rpc = r.rpc, !.query = r.query]
        /\ UNCHANGED <<builder, manager, gateway, transport>>

GetMintInfo(mint, answer) ==
    Answered("get_mint_info", [mint |-> mint, answer |-> answer],
             get_mint_info(transport, mint, answer))

VerifyTokenAccount(account, answer) ==
    Answered("verify_token_account", [account |-> account, answer |-> answer],
             verify_token_account(transport, answer))

\* one call on the gateway, through either variant whatever the gateway's mode,
\* or on a TokenOperations made over the client the gateway holds
NextMixed ==
    \/ \E v \in BOOLEAN, a \in BalanceAnswers : GetBalance(v, Destination, a)
    \/ \E v \in BOOLEAN, a \in AccountAnswers : GetAccountInfo(v, Destination, a)
    \/ \E v \in BOOLEAN, s \in BOOLEAN, a \in SendAnswers :
          SendTransaction(v, "transaction", s, a)
    \/ \E v \in BOOLEAN, a \in ConfirmAnswers : ConfirmTransaction(v, SignatureOf(1), a)
    \/ \E v \in BOOLEAN, a \in BlockhashAnswers : GetRecentBlockhash(v, a)
    \/ \E v \in BOOLEAN, a \in SlotAnswers : GetSlot(v, a)
    \/ \E v \in BOOLEAN, a \in SimulateAnswers : SimulateTransaction(v, "transaction", a)
    \/ \E v \in BOOLEAN : Close(v)
    \/ \E a \in TokenBalanceAnswers : GetTokenAccountBalance(Destination, a)
    \/ \E m \in MintArgs, a \in TokenAccountsAnswers :
          GetTokenAccountsByOwner(Destination, m, a)
    \/ \E a \in AccountAnswers : GetMintInfo(<<"addr", 2>>, a)
    \/ \E a \in AccountAnswers : VerifyTokenAccount(Destination, a)

SpecMixed == InitGateway /\ [][NextMixed]_vars

\* the same calls by a caller who keeps to the gateway's mode: the blocking
\* operations on a blocking gateway, the *_async operations on a non-blocking
\* one, and TokenOperations over the blocking client its constructor names
NextGateway ==
    \/ \E a \in BalanceAnswers : GetBalance(gateway.use_async, Destination, a)
    \/ \E a \in AccountAnswers : GetAccountInfo(gateway.use_async, Destination, a)
    \/ \E s \in BOOLEAN, a \in SendAnswers :
          SendTransaction(gateway.use_async, "transaction", s, a)
    \/ \E a \in ConfirmAnswers : ConfirmTransaction(gateway.use_async, SignatureOf(1), a)
    \/ \E a \in BlockhashAnswers : GetRecentBlockhash(gateway.use_async, a)
    \/ \E a \in SlotAnswers : GetSlot(gateway.use_async, a)
    \/ \E a \in SimulateAnswers : SimulateTransaction(gateway.use_async, "transaction", a)
    \/ Close(gateway.use_async)
    \/ \E a \in TokenBalanceAnswers :
          ~gateway.use_async /\ GetTokenAccountBalance(Destination, a)
    \/ \E m \in MintArgs, a \in TokenAccountsAnswers :
          ~gateway.use_async /\ GetTokenAccountsByOwner(Destination, m, a)
    \/ \E a \in AccountAnswers : ~gateway.use_async /\ GetMintInfo(<<"addr", 2>>, a)
    \/ \E a \in AccountAnswers : ~gateway.use_async /\ VerifyTokenAccount(Destination, a)

SpecGateway == InitGateway /\ [][NextGateway]_vars

(* ------------------- the four components side by side ------------------ *)

\* calls on the builder, the key manager, the gateway of the examples (the
\* blocking one) and the token helper, each with answers and inputs that fail
NextComponents ==
    \/ \E ix \in InstructionPool : add_instruction(ix) /\ UNCHANGED <<held, pending, outside>>
    \/ \E t \in TokenArgs : \E r \in ResponsesFor(t) :
          Build(t, r) /\ UNCHANGED <<held, pending, outside>>
    \/ \E s \in {<<>>, <<(<<3>>)>>}, t \in TokenArgs : \E r \in ResponsesFor(t) :
          BuildAndSign(s, t, r) /\ UNCHANGED <<held, pending, outside>>
    \/ \E pk \in PrivateKeyArgs, e \in {<<>>, << <<>> >>} : Construct(pk, <<>>, e)
    \/ GetPrivateKeyBase58
    \/ \E v \in BOOLEAN, a \in BalanceAnswers : GetBalance(v, Destination, a)
    \/ \E v \in BOOLEAN, a \in AccountAnswers : GetAccountInfo(v, Destination, a)
    \/ \E v \in BOOLEAN, s \in BOOLEAN, a \in SendAnswers :
          SendTransaction(v, "transaction", s, a)
    \/ \E v \in BOOLEAN, a \in ConfirmAnswers : ConfirmTransaction(v, SignatureOf(1), a)
    \/ \E v \in BOOLEAN, a \in BlockhashAnswers : GetRecentBlockhash(v, a)
    \/ \E v \in BOOLEAN, a \in SlotAnswers : GetSlot(v, a)
    \/ \E v \in BOOLEAN, a \in SimulateAnswers : SimulateTransaction(v, "transaction", a)
    \/ \E a \in TokenBalanceAnswers : GetTokenAccountBalance(Destination, a)
    \/ \E m \in MintArgs, a \in TokenAccountsAnswers :
          GetTokenAccountsByOwner(Destination, m, a)
    \/ \E a \in AccountAnswers : GetMintInfo(<<"addr", 2>>, a)
    \/ \E a \in AccountAnswers : VerifyTokenAccount(Destination, a)

SpecComponents == Init /\ [][NextComponents]_vars

(* ------------------------ address derivation -------------------------- *)

Owners == { Destination, pubkey(1) }
Mints == { <<"addr", 2>>, <<"addr", 3>> }

\* mutant: an address that depends on what the builder holds
GetAssociatedTokenAddressOfBuilder(owner, mint) ==
    /\ ret' = [Result("get_associated_token_address", [owner |-> owner, mint |-> mint])
                  EXCEPT !.returned = "pubkey",
                         !.value = <<find_program_address(
                                        <<owner, <<"prog", Len(instructions)>>, mint>>,
                                        ASSOCIATED_TOKEN_PROGRAM_ID)>>]
    /\ UNCHANGED <<instructions, payer, client, pending, added, built,
                   manager, gateway, transport>>

\* TokenOperations.get_associated_token_address(owner, mint)
GetAssociatedTokenAddress(owner, mint) ==
    /\ ret' = [Result("get_associated_token_address", [owner |-> owner, mint |-> mint])
                  EXCEPT !.returned = "pubkey",
                         !.value = <<get_associated_token_address(owner, mint)>>]
    /\ UNCHANGED <<instructions, payer, client, pending, added, built,
                   manager, gateway, transport>>

\* the caller keeps the address of its last derivation, and whether the
\* derivation before it had the same owner and mint
Derived ==
    <<[owner |-> ret'.args.owner, mint |-> ret'.args.mint, value |-> ret'.value[1],
       again |-> /\ held # <<>>
                 /\ held[1].owner = ret'.args.owner
                 /\ held[1].mint = ret'.args.mint]>>

\* derivations of the address, with calls on the builder and on the gateway
\* and its client in between
NextDerive ==
    \/ \E o \in Owners, m \in Mints : GetAssociatedTokenAddress(o, m) /\ held' = Derived
    \/ \E ix \in InstructionPool : add_instruction(ix) /\ UNCHANGED <<held, pending, outside>>
    \/ Reset /\ UNCHANGED <<held, pending, outside>>
    \/ \E a \in BalanceAnswers : GetBalance(FALSE, Destination, a)
    \/ \E a \in AccountAnswers : VerifyTokenAccount(Destination, a)
    \/ Close(FALSE)

SpecDerive == InitGateway /\ [][NextDerive]_vars

(* ------------------- calculate_token_amount, call by call --------------- *)

\* the ui amounts callers write: those of the tests (10.5, 1.5, 100.0), 0,
\* amounts of few digits, an integer above 2^53 and two negative amounts
UiAmounts ==
    { Decimal(FALSE, <<1, 0, 5>>, 1), Decimal(FALSE, <<1, 5>>, 1),
      Decimal(FALSE, <<1, 0, 0, 0>>, 1), Decimal(FALSE, <<0>>, 0),
      Decimal(FALSE, <<0, 2, 9>>, 2), Decimal(FALSE, <<4, 3, 5>>, 2),
      Decimal(FALSE, <<0, 5, 7>>, 2), Decimal(FALSE, <<1, 1, 5>>, 2),
      Decimal(FALSE, <<0, 1>>, 1), Decimal(FALSE, <<0, 3>>, 1),
      Decimal(FALSE, <<0, 7>>, 1), Decimal(FALSE, <<1, 2, 3, 4, 5>>, 4),
      Decimal(FALSE, <<9, 0, 0, 7, 1, 9, 9, 2, 5, 4, 7, 4, 0, 9, 9, 5>>, 0),
      Decimal(TRUE, <<1, 5>>, 1), Decimal(TRUE, <<0, 2, 9>>, 2) }

AmountCalls == { [ui_amount |-> u, decimals |-> d] : u \in UiAmounts, d \in 0..MaxDecimals }

\* a call of calculate_token_amount has been made and has not returned
InitAmounts ==
    /\ instructions = <<>>
    /\ payer \in Payers
    /\ client \in Clients
    /\ ret \in { [Result("calculate_token_amount", a) EXCEPT !.status = "called"] :
                    a \in AmountCalls }
    /\ held = <<>>
    /\ pending = <<>>
    /\ added = <<>>
    /\ built = FALSE
    /\ manager = <<>>
    /\ gateway = SolanaRPCClient_init(<<>>, FALSE, <<>>)
    /\ transport = NewClient(FALSE, DefaultRpcUrl, FALSE)

\* the call returns
CalculateTokenAmount ==
    /\ ret.op = "calculate_token_amount"
    /\ ret.status = "called"
    /\ ret' = [ret EXCEPT !.status = "ok", !.returned = "int",
                          !.value = <<calculate_token_amount(ret.args.ui_amount,
                                                             ret.args.decimals)>>]
    /\ UNCHANGED <<builder, manager, gateway, transport>>

NextAmounts == CalculateTokenAmount

SpecAmounts == InitAmounts /\ [][NextAmounts]_vars

(* ------------------------------ properties ----------------------------- *)

\* what a list of instructions refers to: program id, account keys and data
InstructionRefs(instrs) ==
    [i \in 1..Len(instrs) |->
        [program_id |-> instrs[i].program_id,
         accounts |-> [j \in 1..Len(instrs[i].accounts) |-> instrs[i].accounts[j].pubkey],
         data |-> instrs[i].data]]

\* the accounts that must sign: the fee payer and every account flagged signer
RequiredSigners(instrs, payer_kp) ==
    {pubkey(payer_kp)} \cup
    UNION { { instrs[i].accounts[j].pubkey :
                j \in { n \in DOMAIN instrs[i].accounts : instrs[i].accounts[n].is_signer } } :
            i \in DOMAIN instrs }

\* tx carries, in the slot of account pk, the signature of pk's keypair
HasSignature(tx, pk) ==
    \E i \in DOMAIN tx.signatures :
        /\ tx.message.account_keys[i] = pk
        /\ \E k \in Keypairs : pubkey(k) = pk /\ tx.signatures[i] = SignatureOf(k)

\* the payer and the caller's signers together are all the required signers
Covers(signers, payer_kp, instrs) ==
    RequiredSigners(instrs, payer_kp) \subseteq
        { pubkey(k) : k \in {payer_kp} \cup
                            (IF signers = <<>> THEN {}
                             ELSE { signers[1][i] : i \in DOMAIN signers[1] }) }

\* C1: with an empty instruction list, build and build_and_sign fail with the
\* "at least one instruction" ValueError and return no transaction, whether or
\* not a recent_blockhash was supplied.
C1_EmptyBuildFails ==
    (ret.op \in BuildOps /\ ret.args.pre = <<>>)
        => /\ ret.status = "error"
           /\ ret.error = EmptyTransaction
           /\ ret.tx = <<>>
           /\ ret.returned = "none"

C1_Witness ==
    /\ ret.op = "build_and_sign"
    /\ ret.args.pre = <<>>
    /\ ret.args.recent_blockhash # <<>>
    /\ ret.error = EmptyTransaction

\* C2: whenever build_and_sign reaches signing, the payer is in the list given
\* to sign: the list is [payer] for signers None or [], and [payer] followed by
\* the caller's signers, in their order, for a non-empty list without the payer.
C2_PayerAlwaysSigns ==
    (ret.op = "build_and_sign" /\ ret.signing # <<>>)
        => /\ \E i \in DOMAIN ret.signing[1] : ret.signing[1][i] = payer
           /\ ret.args.signers = <<>> => ret.signing[1] = <<payer>>
           /\ (ret.args.signers # <<>> /\ ret.args.signers[1] = <<>>)
                 => ret.signing[1] = <<payer>>
           /\ (/\ ret.args.signers # <<>>
               /\ ret.args.signers[1] # <<>>
               /\ \A i \in DOMAIN ret.args.signers[1] : ret.args.signers[1][i] # payer)
                 => ret.signing[1] = <<payer>> \o ret.args.signers[1]

C2_Witness ==
    /\ ret.op = "build_and_sign"
    /\ ret.signing # <<>>
    /\ ret.args.signers # <<>>
    /\ Len(ret.args.signers[1]) = 2
    /\ ret.args.signers[1][1] # ret.args.signers[1][2]
    /\ ret.signing[1] = <<payer>> \o ret.args.signers[1]

\* C3: a transaction returned by build_and_sign or create_transfer_transaction
\* carries a signature for the fee payer and for every account flagged signer in
\* its instructions; when the payer and the given signers do not cover them,
\* build_and_sign fails and returns no transaction.
C3_FullySigned ==
    /\ (ret.op = "build_and_sign" /\ ret.tx # <<>>)
          => \A pk \in RequiredSigners(ret.args.pre, payer) : HasSignature(ret.tx[1], pk)
    /\ (ret.op = "create_transfer_transaction" /\ ret.tx # <<>>)
          => \A pk \in RequiredSigners(ret.args.pre, ret.args.payer) :
                HasSignature(ret.tx[1], pk)
    /\ (/\ ret.op = "build_and_sign"
        /\ ~Covers(ret.args.signers, payer, ret.args.pre))
          => (ret.status = "error" /\ ret.tx = <<>>)

C3_Witness ==
    /\ ret.op = "build_and_sign"
    /\ ret.tx # <<>>
    /\ ret.tx[1].message.num_required_signatures = 2
    /\ ret.args.signers # <<>>

\* C4 as claimed: once build or build_and_sign has succeeded, the add methods
\* are refused and leave the instruction list alone until reset.
C4_SignedIsTerminal ==
    [][(built /\ ret'.op \in AddOps)
          => (ret'.status = "error" /\ instructions' = instructions)]_vars

\* C4 amended: the builder has no terminal Signed state: after a successful
\* build or build_and_sign the add methods are still accepted and each appends
\* its instruction to the list; the list is cleared by reset alone.
C4_AddAfterBuildAppends ==
    [][/\ (built /\ ret'.op \in AddOps)
             => /\ ret'.status = "ok"
                /\ instructions' = Append(instructions, ret'.args.instruction)
       /\ Len(instructions') < Len(instructions)
             => (ret'.op = "reset" /\ instructions' = <<>> /\ ~built')]_vars

C4_Witness ==
    /\ built
    /\ ret.op \in AddOps
    /\ ret.status = "ok"
    /\ Len(instructions) = 2

C6_ListIsWhatWasAdded ==
    /\ instructions = added
    /\ ret.op = "get_instruction_count" => ret.count = Len(added)
    /\ ret.op \in AddOps => (ret.returned = "self" /\ ret.status = "ok")

C6_Witness ==
    /\ ret.op \in AddOps
    /\ Len(instructions) = 2
    /\ instructions[1] = instructions[2]

\* C7: reset, in any state, empties the list, returns the builder and leaves
\* payer and client alone; a build right after it fails with the empty-list
\* error, and a built message holds only what was added since the reset.
C7_ResetClears ==
    [][/\ ret'.op = "reset"
             => /\ instructions' = <<>>
                /\ ret'.returned = "self"
                /\ payer' = payer
                /\ client' = client
       /\ (ret.op = "reset" /\ ret'.op \in BuildOps)
             => (ret'.error = EmptyTransaction /\ ret'.tx = <<>>)
       /\ (ret'.op \in BuildOps /\ ret'.tx # <<>>)
             => MessageInstructions(ret'.tx[1].message) = InstructionRefs(added')]_vars

C7_Witness ==
    /\ ret.op = "reset"
    /\ ret.args.pre # <<>>
    /\ ret.args.built
    /\ instructions = <<>>

\* C8: build and build_and_sign make no RPC request when a blockhash is
\* supplied and embed that blockhash; when it is omitted on a non-empty builder
\* they make exactly one get_latest_blockhash request, signing included, and
\* embed the blockhash the node returned.
C8_RpcOnlyForBlockhash ==
    ret.op \in BuildOps
        => /\ ret.args.recent_blockhash # <<>>
                => /\ ret.rpc = <<>>
                   /\ ret.tx # <<>>
                         => ret.tx[1].message.recent_blockhash = ret.args.recent_blockhash[1]
           /\ (ret.args.recent_blockhash = <<>> /\ ret.args.pre # <<>>)
                => /\ ret.rpc = <<"get_latest_blockhash">>
                   /\ ret.tx # <<>>
                         => ret.tx[1].message.recent_blockhash = ret.args.response[1]

C8_Witness ==
    /\ ret.op = "build_and_sign"
    /\ ret.tx # <<>>
    /\ ret.args.recent_blockhash = <<>>
    /\ ret.rpc = <<"get_latest_blockhash">>
    /\ ret.tx[1].message.recent_blockhash = "h2"

\* C9: build leaves the instruction list, payer and client as they were, and
\* two builds from the same list, payer and supplied blockhash return equal
\* messages.
C9_BuildRepeatable ==
    [][ret'.op = "build"
          => /\ instructions' = instructions
             /\ payer' = payer
             /\ client' = client
             /\ (/\ ret'.tx # <<>>
                 /\ held' # <<>>
                 /\ ret'.args.recent_blockhash # <<>>
                 /\ held'[1].recent_blockhash = ret'.args.recent_blockhash
                 /\ held'[1].pre = ret'.args.pre)
                   => held'[1].tx.message = ret'.tx[1].message]_vars

C9_Witness ==
    /\ ret.op = "build"
    /\ ret.tx # <<>>
    /\ held # <<>>
    /\ ret.args.recent_blockhash # <<>>
    /\ held[1].recent_blockhash = ret.args.recent_blockhash
    /\ held[1].pre = ret.args.pre
    /\ held[1].tx.message = ret.tx[1].message

\* C10: verify_signature raises NotImplementedError for every pubkey, message
\* and signature, and returns neither True nor False.
C10_VerifyUnimplemented ==
    ret.op = "verify_signature"
        => /\ ret.status = "error"
           /\ ret.error = NotImplemented
           /\ ret.returned = "none"

C10_Witness ==
    /\ ret.op = "verify_signature"
    /\ ret.args.pubkey = pubkey(1)
    /\ ret.args.signature = SignatureOf(1)
    /\ ret.status = "error"

\* the secret text a constructor call was given to load, if any: the argument,
\* else a non-empty value of the environment variable
SuppliedText(args) ==
    IF args.keypair # <<>> THEN <<>>
    ELSE IF args.private_key # <<>> THEN args.private_key
    ELSE IF args.env # <<>> /\ args.env[1] # <<>> THEN args.env
    ELSE <<>>

\* C11: a KeypairManager made with neither a private_key nor a keypair reads
\* WALLET_PRIVATE_KEY and raises the "must be provided" ValueError when it is
\* unset or empty, else loads the identity that text encodes; the environment
\* is read in no other case; a failed construction yields no identity.
C11_EnvFallback ==
    ret.op = "KeypairManager"
        => /\ (ret.args.private_key = <<>> /\ ret.args.keypair = <<>>)
                => /\ ret.getenv = <<"WALLET_PRIVATE_KEY">>
                   /\ (ret.args.env = <<>> \/ ret.args.env[1] = <<>>)
                         => (ret.status = "error" /\ ret.error = MissingCredential)
                   /\ ret.status = "ok"
                         => b58encode(to_bytes(ret.value[1])) = ret.args.env[1]
           /\ (ret.args.private_key # <<>> \/ ret.args.keypair # <<>>)
                => ret.getenv = <<>>
           /\ ret.status = "error" => (ret.value = <<>> /\ ret.returned = "none")

C11_Witness ==
    /\ ret.op = "KeypairManager"
    /\ ret.args.private_key = <<>>
    /\ ret.args.keypair = <<>>
    /\ ret.args.env = << <<>> >>
    /\ ret.error = MissingCredential
    /\ ret.value = <<>>

\* C12: loading a supplied secret text that has a character outside the
\* base-58 alphabet, or that decodes to a byte string of another length than a
\* keypair, raises the "Failed to load keypair" ValueError, which differs from
\* the missing-credential error, and yields no identity, whether the text is
\* the argument or the value of the environment variable.
C12_InvalidKeyFormat ==
    /\ InvalidKeyFormat # MissingCredential
    /\ (/\ ret.op = "KeypairManager"
        /\ SuppliedText(ret.args) # <<>>
        /\ \/ \E i \in DOMAIN SuppliedText(ret.args)[1] :
                  SuppliedText(ret.args)[1][i] \notin AlphabetChars
           \/ Len(b58decode(SuppliedText(ret.args)[1]).bytes) # KeypairLength)
          => /\ ret.status = "error"
             /\ ret.error = InvalidKeyFormat
             /\ ret.value = <<>>
             /\ ret.returned = "none"

C12_Witness ==
    /\ ret.op = "KeypairManager"
    /\ ret.args.private_key = <<>>
    /\ ret.args.keypair = <<>>
    /\ ret.args.env # <<>>
    /\ \A i \in DOMAIN ret.args.env[1] : ret.args.env[1][i] \in AlphabetChars
    /\ Len(b58decode(ret.args.env[1]).bytes) = KeypairLength + 1
    /\ ret.error = InvalidKeyFormat

\* C13: loading the base-58 encoding of a keypair's bytes gives an identity
\* whose public key is the one derived from that secret, and the text
\* get_private_key_base58 returns loads back to the identity it came from.
C13_ExportLoadInverse ==
    /\ (ret.op = "KeypairManager" /\ ret.args.keypair = <<>>
            /\ ret.args.private_key # <<>>)
          => \A k \in GeneratedKeypairs :
                ret.args.private_key[1] = b58encode(to_bytes(k))
                    => /\ ret.status = "ok"
                       /\ keypair_pubkey(ret.value[1])
                              = <<"kp", PublicOf(SubSeq(k, 1, SeedLength))>>
    /\ ret.op = "get_private_key_base58"
          => /\ load_keypair(ret.value[1]).status = "ok"
             /\ load_keypair(ret.value[1]).keypair = manager

C13_Witness ==
    /\ ret.op = "get_private_key_base58"
    /\ manager[1][1] = 0
    /\ ret.value[1][1] = "1"
    /\ load_keypair(ret.value[1]).keypair = manager

GatewayOps ==
    {"get_balance", "get_account_info", "send_transaction", "confirm_transaction",
     "get_recent_blockhash", "get_slot", "simulate_transaction"}

TokenLookups == {"get_token_account_balance", "get_token_accounts_by_owner", "get_mint_info"}

\* the method of the held client a gateway operation calls
ClientMethod(op) == IF op = "get_recent_blockhash" THEN "get_latest_blockhash" ELSE op

\* C14: every gateway operation, in the variant of the gateway's mode, makes
\* exactly one call to the node and none after a failure; the failure reaches
\* the caller as the error the node gave, unchanged, for send_transaction as
\* for the others.
C14_NoRetry ==
    ret.op \in GatewayOps
        => /\ ret.rpc = <<ClientMethod(ret.op)>>
           /\ ~ret.args.answer.ok
                => /\ ret.status = "error"
                   /\ ret.error = ret.args.answer.payload
                   /\ ret.returned = "none"

C14_Witness ==
    /\ ret.op = "send_transaction"
    /\ ret.args.is_async
    /\ ~ret.args.answer.ok
    /\ ret.error = "RPCException: blockhash not found"
    /\ ret.rpc = <<"send_transaction">>

\* the blockhash a build call used: the one supplied, else the node's
UsedBlockhash(args) ==
    IF args.recent_blockhash # <<>> THEN args.recent_blockhash[1] ELSE args.response[1]

\* C15: in every operation but verify_token_account a failed call of the
\* client or of a library reaches the caller as an error: a failed node
\* request in the gateway operations and the token lookups, a failed blockhash
\* request in build and build_and_sign, a failed signing in build_and_sign, a
\* failed decoding in the key manager; none returns a value in its place.
C15_FailuresSurface ==
    /\ (ret.op \in GatewayOps \cup TokenLookups /\ ~ret.args.answer.ok)
          => /\ ret.status = "error"
             /\ ret.error = ret.args.answer.payload
             /\ ret.returned = "none"
             /\ ret.value = <<>>
    /\ (/\ ret.op \in BuildOps
        /\ ret.rpc # <<>>
        /\ ret.args.response = <<>>)
          => (ret.status = "error" /\ ret.tx = <<>> /\ ret.returned = "none")
    /\ (/\ ret.op = "build_and_sign"
        /\ ret.signing # <<>>
        /\ sign(new_transaction(ret.args.pre, payer, UsedBlockhash(ret.args)),
                ret.signing[1]).status = "error")
          => (ret.status = "error" /\ ret.tx = <<>> /\ ret.returned = "none")
    /\ (/\ ret.op = "KeypairManager"
        /\ SuppliedText(ret.args) # <<>>
        /\ \/ ~b58decode(SuppliedText(ret.args)[1]).ok
           \/ ~from_bytes(b58decode(SuppliedText(ret.args)[1]).bytes).ok)
          => (ret.status = "error" /\ ret.value = <<>> /\ ret.returned = "none")

C15_Witness ==
    /\ ret.op = "get_token_accounts_by_owner"
    /\ ~ret.args.answer.ok
    /\ ret.status = "error"
    /\ ret.error = ret.args.answer.payload

\* C16: verify_token_account never raises and returns a boolean: True exactly
\* when the lookup returned an account and its owner is the token program id,
\* False when the account is absent, has another owner, or the lookup failed.
C16_VerifyNeverRaises ==
    ret.op = "verify_token_account"
        => /\ ret.status = "ok"
           /\ ret.returned = "bool"
           /\ ret.bool <=> /\ transport.kind = "Client"
                           /\ ret.args.answer.ok
                           /\ ret.args.answer.value[1] # <<>>
                           /\ ret.args.answer.value[1][1].owner = TOKEN_PROGRAM_ID

C16_Witness ==
    /\ ret.op = "verify_token_account"
    /\ ret.args.answer.ok
    /\ ret.args.answer.value[1] # <<>>
    /\ ret.bool

\* C17 as claimed: no operation modifies use_async, rpc_url or the held
\* client, and a gateway is never driven through the variant of the other
\* mode.
C17_ModesNeverMixed ==
    [][/\ gateway' = gateway
       /\ ret'.op \in GatewayOps \cup {"close"}
             => ret'.args.is_async = gateway.use_async]_vars

\* C17 amended: no operation modifies use_async, rpc_url or the held client,
\* and the held client is the non-blocking one exactly when use_async is set;
\* the operations do not check the mode, so both variants can be called on any
\* gateway, and a query or submit operation called in the variant of the other
\* mode never returns a value: it raises.
C17_ModeFixedNotChecked ==
    [][/\ gateway' = gateway
       /\ transport'.kind = transport.kind
       /\ gateway.use_async <=> transport.kind = "AsyncClient"
       /\ (ret'.op \in GatewayOps /\ ret'.args.is_async # gateway.use_async)
             => /\ ret'.status = "error"
                /\ ret'.returned = "none"
                /\ ret'.error \in {AttributeErrorCoroutine, TypeErrorAwait}
                                      \cup NodeErrors]_vars

C17_Witness ==
    /\ ret.op = "send_transaction"
    /\ ret.args.is_async
    /\ ~gateway.use_async
    /\ ret.args.answer.ok
    /\ ret.error = TypeErrorAwait

\* C18: close on a blocking gateway and close_async on a non-blocking one
\* never raise and leave the gateway's fields alone; the client is left closed
\* if it has a close at all, so a close after the first changes nothing.
C18_CloseIdempotent ==
    [][ret'.op = "close"
          => /\ ret'.status = "ok"
             /\ gateway' = gateway
             /\ transport' = [transport EXCEPT !.closed = transport.has_close]
             /\ ret.op = "close" => transport' = transport]_vars

C18_Witness ==
    /\ ret.op = "close"
    /\ ret.args.pre.closed
    /\ ret.args.is_async
    /\ ret.status = "ok"
    /\ transport = ret.args.pre

\* C19 as claimed: confirm_transaction makes one query and returns a boolean,
\* True if and only if the status the node reports has no error; for a status
\* with an error and for a signature the node does not know it returns False.
C19_ConfirmReportsStatus ==
    (ret.op = "confirm_transaction" /\ ret.args.answer.ok)
        => /\ ret.rpc = <<"confirm_transaction">>
           /\ ret.status = "ok"
           /\ ret.returned = "bool"
           /\ ret.bool <=> /\ ret.args.answer.value[1][1] # <<>>
                           /\ ret.args.answer.value[1][1][1].status = <<>>

\* C20: get_account_info returns None, without an error, when the node
\* reports no account; else a dictionary with exactly the fields owner,
\* lamports, executable, rent_epoch and data, each the node's value, the
\* owner as text.
C20_AccountInfoShape ==
    (ret.op = "get_account_info" /\ ret.args.answer.ok)
        => /\ ret.status = "ok"
           /\ ret.args.answer.value[1] = <<>>
                => (ret.returned = "none" /\ ret.value = <<>>)
           /\ ret.args.answer.value[1] # <<>>
                => /\ ret.returned = "dict"
                   /\ DOMAIN ret.value[1] =
                          {"owner", "lamports", "executable", "rent_epoch", "data"}
                   /\ ret.value[1].owner = str(ret.args.answer.value[1][1].owner)
                   /\ ret.value[1].lamports = ret.args.answer.value[1][1].lamports
                   /\ ret.value[1].executable = ret.args.answer.value[1][1].executable
                   /\ ret.value[1].rent_epoch = ret.args.answer.value[1][1].rent_epoch
                   /\ ret.value[1].data = ret.args.answer.value[1][1].data

C20_Witness ==
    /\ ret.op = "get_account_info"
    /\ ret.args.is_async
    /\ ret.returned = "dict"
    /\ ret.value[1].owner = str(TOKEN_PROGRAM_ID)

\* the int whose u64 bytes follow the instruction index in the data of a
\* system transfer
LamportsOfData(data) ==
    LET le == SubSeq(data, 5, Len(data))
        be == [i \in 1..Len(le) |-> le[Len(le) + 1 - i]]
    IN  PyInt(FALSE, SubSeq(be, LeadingCount(be, 0) + 1, Len(be)))

\* a well-formed system transfer: two accounts, the source signing, index 2
\* and eight bytes of lamports
IsSystemTransfer(ix) ==
    /\ ix.program_id = SYSTEM_PROGRAM_ID
    /\ Len(ix.accounts) = 2
    /\ ix.accounts[1].is_signer
    /\ Len(ix.data) = 4 + U64Bytes
    /\ SubSeq(ix.data, 1, 4) = <<2, 0, 0, 0>>

\* C21 as claimed: add_transfer with negative lamports is rejected with an
\* error and appends nothing; with any non-negative lamports it appends
\* exactly one system-transfer instruction.
C21_NonNegativeAccepted ==
    [][ret'.op = "add_transfer"
          => /\ ret'.args.lamports.negative
                   => (ret'.status = "error" /\ instructions' = instructions)
             /\ ~ret'.args.lamports.negative
                   => /\ ret'.status = "ok"
                      /\ Len(instructions') = Len(instructions) + 1
                      /\ SubSeq(instructions', 1, Len(instructions)) = instructions
                      /\ IsSystemTransfer(instructions'[Len(instructions')])]_vars

\* C21 amended: the builder checks nothing itself; the library's conversion of
\* lamports to u64 rejects a negative value and a value of 2^64 or more with
\* OverflowError, and then nothing is appended; every value from 0 to 2^64 - 1
\* appends exactly one system-transfer instruction carrying that value.
C21_LamportsFitU64 ==
    [][ret'.op = "add_transfer"
          => /\ (ret'.args.lamports.negative
                    \/ Len(ret'.args.lamports.magnitude) > U64Bytes)
                   => /\ ret'.status = "error"
                      /\ ret'.error = LamportsOverflow
                      /\ ret'.returned = "none"
                      /\ instructions' = instructions
             /\ (~ret'.args.lamports.negative
                    /\ Len(ret'.args.lamports.magnitude) <= U64Bytes)
                   => /\ ret'.status = "ok"
                      /\ ret'.returned = "self"
                      /\ Len(instructions') = Len(instructions) + 1
                      /\ SubSeq(instructions', 1, Len(instructions)) = instructions
                      /\ IsSystemTransfer(instructions'[Len(instructions')])
                      /\ LamportsOfData(instructions'[Len(instructions')].data)
                            = ret'.args.lamports
                      /\ instructions'[Len(instructions')].accounts[1].pubkey
                            = ret'.args.from_pubkey
                      /\ instructions'[Len(instructions')].accounts[2].pubkey
                            = ret'.args.to_pubkey]_vars

C21_Witness ==
    /\ ret.op = "add_transfer"
    /\ ret.status = "error"
    /\ ret.args.lamports.negative
    /\ Len(instructions) = 1
    /\ LamportsOfData(instructions[1].data) = PyInt(FALSE, [i \in 1..U64Bytes |-> 255])

\* the digits of ui_amount * 10^decimals, for a ui amount with at most
\* decimals digits after the point
RawDigits(args) ==
    Stripped(args.ui_amount.digits \o Zeros(args.decimals - args.ui_amount.scale))

\* the call is the one of these digits, scale and decimals
AmountCall(digits, scale, decimals) ==
    /\ ret.args.ui_amount = Decimal(FALSE, digits, scale)
    /\ ret.args.decimals = decimals

\* C22 as claimed: for a non-negative ui amount with at most decimals digits
\* after the point, calculate_token_amount returns exactly
\* ui_amount * 10^decimals.
C22_ExactForDecimals ==
    (/\ ret.op = "calculate_token_amount"
     /\ ret.status = "ok"
     /\ ~ret.args.ui_amount.negative
     /\ ret.args.ui_amount.scale <= ret.args.decimals)
        => /\ ~ret.value[1].negative
           /\ ret.value[1].digits = RawDigits(ret.args)

\* C22 amended: calculate_token_amount truncates the product computed in
\* binary floating point.  For a ui amount with at most decimals digits after
\* the point and a raw amount below 2^52, the magnitude of the result is that
\* of ui_amount * 10^decimals or one less, never more, with the sign of the ui
\* amount; it is exact for 10.5 with 6 decimals, 1.5 with 9, 100.0 with 6 and
\* for 0, and one less for 0.29 with 2 decimals, which gives 28.
C22_TruncatedFloatProduct ==
    (ret.op = "calculate_token_amount" /\ ret.status = "ok")
        => /\ (/\ ret.args.ui_amount.scale <= ret.args.decimals
               /\ Len(BitsOf(RawDigits(ret.args))) < MantissaBits)
                 => /\ \/ ret.value[1].digits = RawDigits(ret.args)
                       \/ Increment(BitsOf(ret.value[1].digits))
                              = BitsOf(RawDigits(ret.args))
                    /\ ret.value[1].negative => ret.args.ui_amount.negative
           /\ AmountCall(<<1, 0, 5>>, 1, 6)
                 => ret.value[1].digits = <<1, 0, 5, 0, 0, 0, 0, 0>>
           /\ AmountCall(<<1, 5>>, 1, 9)
                 => ret.value[1].digits = <<1, 5, 0, 0, 0, 0, 0, 0, 0, 0>>
           /\ AmountCall(<<1, 0, 0, 0>>, 1, 6)
                 => ret.value[1].digits = <<1, 0, 0, 0, 0, 0, 0, 0, 0>>
           /\ ret.args.ui_amount.digits = <<0>> => ret.value[1].digits = <<>>
           /\ AmountCall(<<0, 2, 9>>, 2, 2) => ret.value[1].digits = <<2, 8>>

C22_Witness ==
    /\ ret.op = "calculate_token_amount"
    /\ ret.status = "ok"
    /\ AmountCall(<<0, 2, 9>>, 2, 2)
    /\ ret.value[1] = [negative |-> FALSE, digits |-> <<2, 8>>]

\* C23: get_associated_token_address makes no request and changes neither
\* the builder, the key manager, the gateway nor its client; a call with the
\* owner and mint of an earlier call returns the address that call returned,
\* whatever was done on the builder and the gateway in between.
C23_AddressIsPure ==
    [][ret'.op = "get_associated_token_address"
          => /\ ret'.status = "ok"
             /\ ret'.rpc = <<>>
             /\ <<instructions, payer, client, added, built>>'
                    = <<instructions, payer, client, added, built>>
             /\ <<manager, gateway, transport>>' = <<manager, gateway, transport>>
             /\ (/\ held # <<>>
                 /\ held[1].owner = ret'.args.owner
                 /\ held[1].mint = ret'.args.mint)
                   => ret'.value = <<held[1].value>>]_vars

C23_Witness ==
    /\ ret.op = "get_associated_token_address"
    /\ held # <<>>
    /\ held[1].again
    /\ held[1].value = ret.value[1]
    /\ instructions # <<>>
    /\ transport.closed

\* C24: get_token_accounts_by_owner makes exactly one call on the client,
\* for the owner it was given, with one filter: the mint when a mint is given,
\* the token program id when none is; when the call returns, the method
\* returns the node's list of accounts, in the node's order.
C24_OneFilteredQuery ==
    ret.op = "get_token_accounts_by_owner"
        => /\ ret.rpc = <<"get_token_accounts_by_owner">>
           /\ Len(ret.query) = 1
           /\ ret.query[1].owner = ret.args.owner
           /\ Cardinality(DOMAIN ret.query[1].opts) = 1
           /\ ret.args.mint # <<>> => ret.query[1].opts = [mint |-> ret.args.mint[1]]
           /\ ret.args.mint = <<>> => ret.query[1].opts = [programId |-> TOKEN_PROGRAM_ID]
           /\ ret.args.answer.ok
                 => /\ ret.status = "ok"
                    /\ ret.returned = "list"
                    /\ ret.value = ret.args.answer.value

C24_Witness ==
    /\ ret.op = "get_token_accounts_by_owner"
    /\ ret.status = "ok"
    /\ ret.args.mint # <<>>
    /\ ret.query[1].opts = [mint |-> <<"addr", 2>>]
    /\ Len(ret.value[1]) = 2
    /\ ret.value[1][1].lamports < ret.value[1][2].lamports

\* C25 as claimed: every transaction build or build_and_sign returns holds at
\* least one instruction, also when another caller's reset or add_instruction
\* runs between the emptiness check and the construction of the message.
C25_NeverEmptyMessage ==
    (ret.op \in BuildOps /\ ret.tx # <<>>)
        => Len(ret.tx[1].message.instructions) > 0

\* C25 amended: the check is made on the list as it is when build is entered,
\* the message is made of the list as it is once the blockhash is there.  The
\* transaction returned holds exactly the instructions of the list at that
\* later moment: those added meanwhile are in it, and it has no instruction
\* at all exactly when the list was emptied meanwhile.
C25_MessageOfListAtConstruction ==
    [][(pending # <<>> /\ pending' = <<>>)
          => /\ pending[1].checked # <<>>
             /\ instructions' = instructions
             /\ ret'.tx # <<>>
                   => /\ MessageInstructions(ret'.tx[1].message)
                            = InstructionRefs(instructions)
                      /\ (Len(ret'.tx[1].message.instructions) = 0)
                            <=> (instructions = <<>>)
             /\ (instructions = pending[1].checked /\ ret'.tx # <<>>)
                   => Len(ret'.tx[1].message.instructions) > 0]_vars

C25_Witness ==
    /\ ret.op = "build_and_sign"
    /\ ret.status = "ok"
    /\ ret.tx # <<>>
    /\ ret.args.pre # <<>>
    /\ ret.args.recent_blockhash = <<>>
    /\ Len(ret.tx[1].message.instructions) = 0
    /\ ret.tx[1].signatures = <<SignatureOf(payer)>>

C27_EmptyCheckBeforeFetch ==
    (ret.op \in BuildOps /\ ret.args.pre = <<>> /\ ret.args.recent_blockhash = <<>>)
        => /\ ret.rpc = <<>>
           /\ ret.error = EmptyTransaction
           /\ ret.error # RpcFailure
           /\ ret.signing = <<>>

C27_Witness ==
    /\ ret.op = "build"
    /\ instructions = <<>>
    /\ ret.args.pre = <<>>
    /\ ret.args.recent_blockhash = <<>>
    /\ ret.args.response = <<>>
    /\ ret.rpc = <<>>
    /\ ret.error = EmptyTransaction

\* C28: when the get_latest_blockhash request of build or build_and_sign
\* fails, the call ends with that error and returns no transaction, the
\* instruction list and the payer are as before the call, and a build that
\* follows with a blockhash supplied succeeds with the same instructions.
C28_FailedFetchLeavesBuilder ==
    [][/\ (ret'.op \in BuildOps /\ ret'.error = RpcFailure)
            => /\ ret'.status = "error"
               /\ ret'.tx = <<>>
               /\ ret'.returned = "none"
               /\ ret'.signing = <<>>
               /\ instructions' = instructions
               /\ instructions' = ret'.args.pre
               /\ payer' = payer
       /\ (/\ held' # <<>>
           /\ held'[1].op \in BuildOps
           /\ held'[1].error = RpcFailure
           /\ ret'.op = "build"
           /\ ret'.args.recent_blockhash # <<>>)
            => /\ ret'.status = "ok"
               /\ ret'.tx # <<>>
               /\ MessageInstructions(ret'.tx[1].message) = InstructionRefs(held'[1].pre)
               /\ FeePayer(ret'.tx[1].message) = pubkey(held'[1].payer)]_vars

C28_Witness ==
    /\ held # <<>>
    /\ held[1].op = "build_and_sign"
    /\ held[1].error = RpcFailure
    /\ Len(held[1].pre) = 2
    /\ ret.op = "build"
    /\ ret.args.recent_blockhash # <<>>
    /\ ret.status = "ok"
    /\ MessageInstructions(ret.tx[1].message) = InstructionRefs(held[1].pre)

\* C29: build_and_sign, whether it succeeds or fails, leaves the caller's
\* signers list, the builder's payer and the builder's instruction list as
\* they were; a list that already contains the payer is the list handed to
\* sign, with the payer neither added again nor moved to the front.
C29_SignersAndBuilderUntouched ==
    [][ret'.op = "build_and_sign"
          => /\ ret'.args.signers_after = ret'.args.signers
             /\ payer' = payer
             /\ instructions' = instructions
             /\ instructions' = ret'.args.pre
             /\ (/\ ret'.args.signers # <<>>
                 /\ ret'.signing # <<>>
                 /\ \E i \in DOMAIN ret'.args.signers[1] : ret'.args.signers[1][i] = payer)
                  => ret'.signing[1] = ret'.args.signers[1]]_vars

C29_Witness ==
    /\ ret.op = "build_and_sign"
    /\ ret.status = "ok"
    /\ ret.args.signers # <<>>
    /\ Len(ret.args.signers[1]) = 2
    /\ ret.args.signers[1][2] = payer
    /\ ret.args.signers_after = ret.args.signers
    /\ ret.signing = <<ret.args.signers[1]>>
    /\ instructions = ret.args.pre

====
